---- MODULE Spec2Model ----
(***************************************************************************)
(* Model of the document ingestion / retrieval / caching core of the       *)
(* internal-chatbot repository (src/api).                                  *)
(*                                                                         *)
(* Strings that the code inspects character by character (source paths)    *)
(* are sequences of one-character strings.  A retrieved row is the         *)
(* (id, content, score, source_file) tuple that rag_service.py and the     *)
(* caches index and unpack; the DAO's searches return DocumentResult       *)
(* objects instead.  Only the fields the modelled code reads are kept.     *)
(*                                                                         *)
(* SpecCache drives each cache class through its public methods with       *)
(* values of the types its signatures declare; SpecQuery runs the query    *)
(* pipeline of the service against deletions of source files.              *)
(***************************************************************************)
EXTENDS Integers, Sequences, FiniteSets, TLC

VARIABLES
    exercised,      \* which cache instance the cache-level runs drive
    now,            \* time.time(), in ticks
    embCache,       \* EmbeddingCache.cache (OrderedDict, oldest first)
    embHits,        \* EmbeddingCache.hits
    embMisses,      \* EmbeddingCache.misses
    qrcCache,       \* QueryResultCache.cache (OrderedDict, oldest first)
    qrcHits,        \* QueryResultCache.hits
    qrcMisses,      \* QueryResultCache.misses
    rcCache,        \* ResponseCache.cache (dict: key -> CachedResponse)
    rcOrder,        \* ResponseCache.access_order
    rcHits,         \* ResponseCache.hits
    rcMisses,       \* ResponseCache.misses
    rcEvictions,    \* ResponseCache.evictions
    ret,            \* the last call: its name, arguments and return value
    store,          \* the committed rows of the documents table
    qw,             \* the /generate requests being served, one per worker
    del,            \* the thread handling a source deletion
    disk,           \* the watched directory: each file's mtime, 0 if absent
    ing,            \* the ingestion runs, one per process
    processing_files, \* DocumentFileHandler.processing_files
    runs,           \* the number of ingestion runs started
    aborted,        \* the runs whose embedding or insertion failed
    seen,           \* the rows a reader of the store last got
    dir,            \* a run of ingest_path(_incremental) over a directory
    wait            \* a call of _wait_for_file_ready and the file it polls

cacheVars == <<embCache, embHits, embMisses, qrcCache, qrcHits, qrcMisses,
               rcCache, rcOrder, rcHits, rcMisses, rcEvictions>>

ingestVars == <<disk, ing, processing_files, runs, aborted, seen, dir, wait>>

pipelineVars == <<store, qw, del, ingestVars>>

vars == <<exercised, now, cacheVars, ret, pipelineVars>>

----------------------------------------------------------------------------
(* Bounds of the model *)

\* max_size of every cache instance
MaxSize == 2
\* ttl_seconds of every cache instance, in ticks
TTL == 1
\* last tick of the clock
MaxTime == 2
\* cap on hits + misses and on evictions of one cache
MaxCount == 2
\* the number of chunks chunk_text makes of a file
NChunks == 2
\* cap on the ingestion runs started
MaxRuns == 3
\* settings.auto_ingest_max_retries
MaxRetries == 1
\* the last mtime a file takes
MaxMtime == 2

----------------------------------------------------------------------------
(* Strings and source paths *)

None == "None"

\* the absolute source paths of the store: /d/a, /d/d/a, /d/b
SrcA == <<"/", "d", "/", "a">>
SrcDA == <<"/", "d", "/", "d", "/", "a">>
SrcB == <<"/", "d", "/", "b">>
Sources == {SrcA, SrcDA, SrcB}

\* a NULL source_file column
NoSource == <<>>

\* Python's `s in t` on strings
IsSubstring(s, t) ==
    \E i \in 0..(Len(t) - Len(s)) : SubSeq(t, i + 1, i + Len(s)) = s

\* the part of s after its last occurrence of ch: s.split(ch)[-1]
RECURSIVE LastPart(_, _)
LastPart(s, ch) ==
    IF \A i \in 1..Len(s) : s[i] # ch
    THEN s
    ELSE LastPart(Tail(s), ch)

UnknownDocument == <<"U">>

\* display_source of _build_context
DisplaySource(source_file) ==
    IF source_file = NoSource
    THEN UnknownDocument
    ELSE LastPart(LastPart(source_file, "/"), "\\")

\* a row of the store as retrieval returns it; every sample row is at the
\* distance 1 from the sample queries
Row(id, source_file) ==
    [id |-> id, source_file |-> source_file, score |-> 1]

\* the sources list _build_context makes of the retrieved rows
RECURSIVE BuildContextSources(_)
BuildContextSources(documents) ==
    IF documents = <<>>
    THEN <<>>
    ELSE <<[id |-> Head(documents).id,
            source_file |-> DisplaySource(Head(documents).source_file)]>>
         \o BuildContextSources(Tail(documents))

\* the source files a list of rows came from
RowSources(documents) ==
    {documents[i].source_file : i \in 1..Len(documents)} \ {NoSource}

----------------------------------------------------------------------------
(* EmbeddingCache and QueryResultCache: an OrderedDict of key -> (value,    *)
(* timestamp), as a sequence of entries, oldest first                       *)

ODHas(c, key) == \E i \in 1..Len(c) : c[i].key = key

ODEntry(c, key) == c[CHOOSE i \in 1..Len(c) : c[i].key = key]

ODKeys(c) == {c[i].key : i \in 1..Len(c)}

ODKeyOrder(c) == [i \in 1..Len(c) |-> c[i].key]

\* del self.cache[key]
ODDelete(c, key) == SelectSeq(c, LAMBDA e : e.key # key)

\* self.cache[key] = (value, time.time()): a new key goes last, a stored key
\* keeps its place
ODSet(c, key, value, t) ==
    IF ODHas(c, key)
    THEN [i \in 1..Len(c) |->
            IF c[i].key = key THEN [key |-> key, value |-> value, ts |-> t]
            ELSE c[i]]
    ELSE Append(c, [key |-> key, value |-> value, ts |-> t])

\* self.cache.move_to_end(key)
ODMoveToEnd(c, key) == Append(ODDelete(c, key), ODEntry(c, key))

\* mutant of ODEvict: the loop lets one entry too many stay
RECURSIVE ODEvictLate(_, _)
ODEvictLate(c, maxSize) ==
    IF Len(c) > maxSize + 1 THEN ODEvictLate(Tail(c), maxSize) ELSE c

\* while len(self.cache) > self.max_size: self.cache.popitem(last=False)
RECURSIVE ODEvict(_, _)
ODEvict(c, maxSize) ==
    IF Len(c) > maxSize THEN ODEvict(Tail(c), maxSize) ELSE c

\* mutant of IsExpired: an entry lives one tick longer than ttl_seconds
IsExpiredLate(ts, t, ttl) == t - ts > ttl + 1

\* time.time() - timestamp > self.ttl_seconds
IsExpired(ts, t, ttl) == t - ts > ttl

\* mutant of ODGet: a hit does not move the key to the end
ODGetNoMove(c, key, t, ttl) ==
    IF ~ODHas(c, key)
    THEN [cache |-> c, outcome |-> "absent", value |-> None]
    ELSE IF IsExpired(ODEntry(c, key).ts, t, ttl)
    THEN [cache |-> ODDelete(c, key), outcome |-> "expired", value |-> None]
    ELSE [cache |-> c, outcome |-> "hit", value |-> ODEntry(c, key).value]

\* get(): the cache afterwards, the branch taken and the value returned
ODGet(c, key, t, ttl) ==
    IF ~ODHas(c, key)
    THEN [cache |-> c, outcome |-> "absent", value |-> None]
    ELSE IF IsExpired(ODEntry(c, key).ts, t, ttl)
    THEN [cache |-> ODDelete(c, key), outcome |-> "expired", value |-> None]
    ELSE [cache |-> ODMoveToEnd(c, key), outcome |-> "hit",
          value |-> ODEntry(c, key).value]

\* put(): the cache afterwards
ODPut(c, key, value, t, maxSize) ==
    ODEvict(ODMoveToEnd(ODSet(c, key, value, t), key), maxSize)

\* QueryResultCache.invalidate_by_source: the keys whose result has a row with
\* `doc_source_file and source_file in doc_source_file`
QrcKeysToRemove(c, source_file) ==
    {c[i].key : i \in {j \in 1..Len(c) :
        \E n \in 1..Len(c[j].value) :
            /\ c[j].value[n].source_file # NoSource
            /\ IsSubstring(source_file, c[j].value[n].source_file)}}

QrcInvalidate(c, source_file) ==
    SelectSeq(c, LAMBDA e : e.key \notin QrcKeysToRemove(c, source_file))

----------------------------------------------------------------------------
(* ResponseCache: a dict key -> CachedResponse plus the access_order list   *)

Restrict(f, S) == [k \in S |-> f[k]]

EmptyDict == [k \in {} |-> None]

\* list.remove(key): drops the first occurrence
RECURSIVE ListRemove(_, _)
ListRemove(order, key) ==
    IF order = <<>> THEN <<>>
    ELSE IF Head(order) = key THEN Tail(order)
    ELSE <<Head(order)>> \o ListRemove(Tail(order), key)

InList(order, key) == \E i \in 1..Len(order) : order[i] = key

\* mutant of RCForget: the key stays where it is in access_order
RCForgetNothing(order, key) == order

\* if key in self.access_order: self.access_order.remove(key)
RCForget(order, key) ==
    IF InList(order, key) THEN ListRemove(order, key) ELSE order

\* the access-order update of get() and put()
RCTouch(order, key) == Append(RCForget(order, key), key)

\* get(): cache and access_order afterwards, the branch taken, the value
RCGet(cache, order, key, t, ttl) ==
    IF key \notin DOMAIN cache
    THEN [cache |-> cache, order |-> order, outcome |-> "absent",
          value |-> None]
    ELSE IF IsExpired(cache[key].ts, t, ttl)
    THEN [cache |-> Restrict(cache, DOMAIN cache \ {key}),
          order |-> RCForget(order, key), outcome |-> "expired",
          value |-> None]
    ELSE [cache |-> cache, order |-> RCTouch(order, key), outcome |-> "hit",
          value |-> cache[key]]

\* while len(self.cache) > self.max_size: pop the head of access_order and
\* delete it when stored; popping an empty list raises
RECURSIVE RCEvict(_, _, _, _)
RCEvict(cache, order, evictions, maxSize) ==
    IF Cardinality(DOMAIN cache) <= maxSize
    THEN [cache |-> cache, order |-> order, evictions |-> evictions,
          raised |-> FALSE]
    ELSE IF order = <<>>
    THEN [cache |-> cache, order |-> order, evictions |-> evictions,
          raised |-> TRUE]
    ELSE IF Head(order) \in DOMAIN cache
    THEN RCEvict(Restrict(cache, DOMAIN cache \ {Head(order)}), Tail(order),
                 evictions + 1, maxSize)
    ELSE RCEvict(cache, Tail(order), evictions, maxSize)

\* put(): cache, access_order and evictions afterwards
RCPut(cache, order, evictions, key, entry, maxSize) ==
    RCEvict([k \in DOMAIN cache \cup {key} |->
                IF k = key THEN entry ELSE cache[k]],
            RCTouch(order, key), evictions, maxSize)

\* ResponseCache.invalidate_by_source: the keys with a source whose
\* 'source_file' is set and contains source_file
RcKeysToRemove(cache, source_file) ==
    {k \in DOMAIN cache :
        \E n \in 1..Len(cache[k].sources) :
            /\ cache[k].sources[n].source_file # NoSource
            /\ IsSubstring(source_file, cache[k].sources[n].source_file)}

\* cleanup_expired: the keys with current_time - timestamp > ttl_seconds
RcExpiredKeys(cache, t, ttl) ==
    {k \in DOMAIN cache : IsExpired(cache[k].ts, t, ttl)}

\* for key in keys: del self.cache[key]; drop it from access_order
RECURSIVE ForgetAll(_, _)
ForgetAll(order, keys) ==
    IF keys = {} THEN order
    ELSE LET k == CHOOSE x \in keys : TRUE
         IN ForgetAll(RCForget(order, k), keys \ {k})

RCRemoveKeys(cache, order, keys) ==
    [cache |-> Restrict(cache, DOMAIN cache \ keys),
     order |-> ForgetAll(order, keys)]

\* the CachedResponse put() builds; origin records the rows the sources were
\* built from (history only: no code reads it)
CachedResponse(sources, t, documents) ==
    [sources |-> sources, ts |-> t, origin |-> documents]

----------------------------------------------------------------------------
(* Cache keys and the inputs of the cache-level runs *)

EmbModel == "m"
Texts == {"t1", "t2", "t3"}

\* EmbeddingCache._generate_key: the digest of "text:model"
EmbKey(text, model) == <<text, model>>

\* the vector the provider returns for a text
Embed(text) == <<"vec", text>>

Queries == {"q1", "Q1", "q2", "q3"}
TopK == 5

\* QueryResultCache._generate_key: the digest of the sorted JSON of
\* {"type": query_type, "params": query_params}
QrcKey(query_type, query, strategy, top_k) ==
    <<query_type, query, strategy, top_k>>

RetrievalKey(query, strategy) ==
    QrcKey("document_retrieval", query, strategy, TopK)

\* query.strip().lower()
Normalize(query) == IF query = "Q1" THEN "q1" ELSE query

\* ResponseCache._generate_cache_key: the digest of
\* "normalized_query:system_prompt or '':model or ''"
RcKey(query, system_prompt, model) ==
    <<Normalize(query),
      IF system_prompt = None THEN "" ELSE system_prompt,
      IF model = None THEN "" ELSE model>>

DefaultModel == "m"

\* the result list put() is handed for each query in the cache-level runs
SampleResult(query) ==
    CASE query = "q1" -> <<Row(1, SrcA), Row(3, SrcB)>>
      [] query = "Q1" -> <<Row(1, SrcA)>>
      [] query = "q2" -> <<Row(2, SrcDA), Row(4, NoSource)>>
      [] OTHER -> <<Row(3, SrcB)>>

----------------------------------------------------------------------------
(* The documents table and what the DAO returns from it *)

\* a row of the documents table
StoredRow(id, source_file, chunk_index, version) ==
    [id |-> id, source_file |-> source_file, chunk_index |-> chunk_index,
     version |-> version]

\* mutant of DocumentResult: the DAO returns the plain tuple
TupleResult(id, source_file) == Row(id, source_file)

\* models.DocumentResult, the object every search of the DAO returns
DocumentResult(id, source_file) ==
    [cls |-> "DocumentResult", id |-> id, source_file |-> source_file,
     score |-> 1]

\* doc[2] works on a tuple and raises TypeError on a DocumentResult
Subscriptable(doc) == "cls" \notin DOMAIN doc

\* the lower-cased words the content of a source file's chunks contains
WordsOf(source_file) ==
    CASE source_file = SrcA -> {"q1", "q2", "is", "ok"}
      [] source_file = SrcB -> {"q1", "q3"}
      [] source_file = SrcDA -> {"q2"}
      [] OTHER -> {}

RECURSIVE SortById(_)
SortById(rows) ==
    IF rows = {}
    THEN <<>>
    ELSE LET first == CHOOSE r \in rows : \A o \in rows : r.id <= o.id
         IN <<first>> \o SortById(rows \ {first})

\* LIMIT n
Limit(seq, n) == SubSeq(seq, 1, IF Len(seq) < n THEN Len(seq) ELSE n)

\* query_text.lower().split() of a sample query
Terms(query_text) ==
    IF query_text = "q4" THEN {"is", "q1", "ok"} ELSE {Normalize(query_text)}

\* dao.search: the rows nearest to the query vector, at most top_k of them
SearchVector(rows, top_k) ==
    LET ordered == Limit(SortById(rows), top_k)
    IN [i \in 1..Len(ordered) |->
           DocumentResult(ordered[i].id, ordered[i].source_file)]

\* dao.search_keyword: the rows whose content contains every lower-cased
\* term of the query, best first, at most top_k of them
SearchKeyword(rows, query_text, top_k) ==
    LET matching == {r \in rows : Terms(query_text) \subseteq WordsOf(r.source_file)}
        ordered == Limit(SortById(matching), top_k)
    IN [i \in 1..Len(ordered) |->
           DocumentResult(ordered[i].id, ordered[i].source_file)]

\* DELETE FROM documents WHERE source_file = %s
DeleteBySource(rows, source_file) ==
    {r \in rows : r.source_file # source_file}

\* the text of the sample queries
QueryText(query) ==
    CASE query = "q1" -> <<"q", "1">>
      [] query = "Q1" -> <<"Q", "1">>
      [] query = "q2" -> <<"q", "2">>
      [] query = "q3" -> <<"q", "3">>
      [] query = "q4" -> <<"i", "s", " ", "q", "1", " ", "o", "k">>

UpperCase == <<"A", "B", "C", "D", "E", "F", "G", "H", "I", "J", "K", "L", "M", "N", "O", "P", "Q", "R", "S", "T", "U", "V", "W", "X", "Y", "Z">>
LowerCase == <<"a", "b", "c", "d", "e", "f", "g", "h", "i", "j", "k", "l", "m", "n", "o", "p", "q", "r", "s", "t", "u", "v", "w", "x", "y", "z">>

\* str.lower()
Lower(text) ==
    [i \in DOMAIN text |->
        IF \E j \in DOMAIN UpperCase : UpperCase[j] = text[i]
        THEN LowerCase[CHOOSE j \in DOMAIN UpperCase : UpperCase[j] = text[i]]
        ELSE text[i]]

\* len(query.split()): the runs of characters that are not blanks
WordCount(text) ==
    Cardinality({i \in DOMAIN text :
                    text[i] # " " /\ (i = 1 \/ text[i - 1] = " ")})

HcbsKeywords ==
    {<<"h", "c", "b", "s">>,
     <<"h", "o", "m", "e", " ", "a", "n", "d", " ", "c", "o", "m", "m", "u", "n", "i", "t", "y">>,
     <<"b", "e", "h", "a", "v", "i", "o", "r", "a", "l", " ", "h", "e", "a", "l", "t", "h", " ", "h", "c", "b", "s">>,
     <<"b", "h", " ", "h", "c", "b", "s">>,
     <<"h", "a", "r", "p">>}

CcbhcKeywords ==
    {<<"c", "c", "b", "h", "c">>,
     <<"c", "e", "r", "t", "i", "f", "i", "e", "d", " ", "c", "o", "m", "m", "u", "n", "i", "t", "y", " ", "b", "e", "h", "a", "v", "i", "o", "r", "a", "l", " ", "h", "e", "a", "l", "t", "h", " ", "c", "l", "i", "n", "i", "c">>,
     <<"q", "u", "a", "l", "i", "t", "y", " ", "m", "e", "a", "s", "u", "r", "e", "s">>}

PolicyKeywords ==
    {<<"p", "o", "l", "i", "c", "y">>,
     <<"p", "r", "o", "c", "e", "d", "u", "r", "e">>,
     <<"m", "a", "n", "u", "a", "l">>,
     <<"g", "u", "i", "d", "e", "l", "i", "n", "e">>,
     <<"d", "o", "c", "u", "m", "e", "n", "t", "a", "t", "i", "o", "n">>}

DrugKeywords ==
    {<<"d", "r", "u", "g">>,
     <<"s", "u", "b", "s", "t", "a", "n", "c", "e">>,
     <<"t", "e", "s", "t">>,
     <<"t", "e", "s", "t", "i", "n", "g">>,
     <<"l", "i", "s", "t">>,
     <<"s", "c", "r", "e", "e", "n", "i", "n", "g">>}

ComplexKeywords ==
    {<<"c", "r", "i", "t", "e", "r", "i", "a">>,
     <<"r", "e", "q", "u", "i", "r", "e", "m", "e", "n", "t", "s">>,
     <<"e", "l", "i", "g", "i", "b", "i", "l", "i", "t", "y">>,
     <<"a", "d", "m", "i", "s", "s", "i", "o", "n">>,
     <<"s", "p", "e", "c", "i", "f", "i", "c">>,
     <<"d", "e", "t", "a", "i", "l", "e", "d">>}

\* any(keyword in query_lower for keyword in keywords)
AnyIn(keywords, text) == \E keyword \in keywords : IsSubstring(keyword, text)

\* any(char in query for char in ['"', "'"])
Quoted(text) == \E i \in DOMAIN text : text[i] \in {"\"", "'"}

\* mutant of StrategyFor: the drug keywords are looked for before the
\* policy keywords
StrategyDrugFirst(query, enable_fast_mode) ==
    LET query_lower == Lower(query)
    IN IF AnyIn(HcbsKeywords, query_lower) THEN "enhanced"
       ELSE IF AnyIn(CcbhcKeywords, query_lower) THEN "enhanced"
       ELSE IF AnyIn(DrugKeywords, query_lower) THEN "enhanced"
       ELSE IF AnyIn(PolicyKeywords, query_lower) THEN "combined"
       ELSE IF WordCount(query) <= 2 \/ Quoted(query) THEN "keyword"
       ELSE IF AnyIn(ComplexKeywords, query_lower) THEN "enhanced"
       ELSE "semantic"

\* _determine_optimal_strategy under a value of settings.enable_fast_mode
StrategyFor(query, enable_fast_mode) ==
    LET query_lower == Lower(query)
        query_words == WordCount(query)
    IN IF AnyIn(HcbsKeywords, query_lower) THEN "enhanced"
       ELSE IF AnyIn(CcbhcKeywords, query_lower) THEN "enhanced"
       ELSE IF AnyIn(PolicyKeywords, query_lower) THEN "combined"
       ELSE IF AnyIn(DrugKeywords, query_lower) THEN "enhanced"
       ELSE IF query_words <= 2 \/ Quoted(query) THEN "keyword"
       ELSE IF AnyIn(ComplexKeywords, query_lower) THEN "enhanced"
       ELSE IF enable_fast_mode THEN "semantic"
       ELSE "semantic"

\* _determine_optimal_strategy of a sample query, enable_fast_mode at its
\* default
DetermineOptimalStrategy(query) == StrategyFor(QueryText(query), TRUE)

\* the strategies whose search takes the embedding of the query
NeedsEmbedding(strategy) ==
    strategy \in {"semantic", "hybrid", "enhanced", "combined", "fast"}

\* the search retrieve_documents runs for the strategy of a sample query
DaoSearch(rows, query, strategy, top_k) ==
    CASE strategy = "keyword" -> SearchKeyword(rows, query, top_k)
      [] strategy \in {"semantic", "fast"} -> SearchVector(rows, top_k)

\* mutant of Propagates: no call of retrieve_documents is inside a try
PropagatesAll(site) == TRUE

\* whether an exception raised at a call of retrieve_documents leaves the
\* function: the count of the documents on a cache hit is made before the
\* try, the embedding, the search and the count after it are inside
Propagates(site) == site = "cache_hit"

\* self.relevance_threshold
RelevanceThreshold == 20

\* mutant of KeepWithin: a document at the threshold is dropped
RECURSIVE KeepBelow(_, _, _)
KeepBelow(documents, numerator, denominator) ==
    IF documents = <<>>
    THEN <<>>
    ELSE IF Head(documents).score * denominator < numerator
    THEN <<Head(documents)>>
             \o KeepBelow(Tail(documents), numerator, denominator)
    ELSE KeepBelow(Tail(documents), numerator, denominator)

\* [doc for doc in documents if doc[2] <= threshold], for a threshold given
\* as a fraction
RECURSIVE KeepWithin(_, _, _)
KeepWithin(documents, numerator, denominator) ==
    IF documents = <<>>
    THEN <<>>
    ELSE IF Head(documents).score * denominator <= numerator
    THEN <<Head(documents)>>
             \o KeepWithin(Tail(documents), numerator, denominator)
    ELSE KeepWithin(Tail(documents), numerator, denominator)

\* min(a, b) of two fractions with the same denominator
MinOf(a, b) == IF a <= b THEN a ELSE b

\* _filter_by_relevance: the thresholds are min(20.0, best * 1.5) for more
\* than one semantic result and 20.0 for one, min(20.0 * 1.2, best * 1.75)
\* for enhanced and combined, 20.0 for the other strategies; keyword results
\* are kept as they are
FilterByRelevance(documents, strategy) ==
    IF documents = <<>>
    THEN documents
    ELSE IF strategy = "semantic"
    THEN IF Len(documents) > 1
         THEN KeepWithin(documents,
                         MinOf(RelevanceThreshold * 2,
                               documents[1].score * 3),
                         2)
         ELSE KeepWithin(documents, RelevanceThreshold, 1)
    ELSE IF strategy = "keyword"
    THEN documents
    ELSE IF strategy \in {"enhanced", "combined"}
    THEN KeepWithin(documents,
                    MinOf(RelevanceThreshold * 24, documents[1].score * 35),
                    20)
    ELSE KeepWithin(documents, RelevanceThreshold, 1)

\* retrieve_documents from the search result on: logging the best score
\* subscripts the first result, and any exception yields the empty result
AfterSearch(documents, strategy) ==
    IF documents # <<>> /\ ~Subscriptable(documents[1])
    THEN [raised |-> TRUE, documents |-> <<>>]
    ELSE [raised |-> FALSE, documents |-> FilterByRelevance(documents, strategy)]

----------------------------------------------------------------------------
(* The processes of the query pipeline *)

Workers == {"w1", "w2"}

NoRead == [cache |-> None, outcome |-> None, refs |-> {}, committed |-> {}]

NoPut == [cache |-> None, done |-> {}]

\* a worker between two requests; found, put and read are history: the
\* sources of the rows its search returned, the deletions whose invalidation
\* had completed when it last put into a cache, and its last cache read
\* error and raised are history: the call of retrieve_documents that
\* failed, and whether retrieve_documents raised; searches counts the
\* searches of the store the request has run; repeat tells that a retrieval
\* for the same query had ended with an error or without documents when the
\* request came in, success that the generation of the response succeeded
IdleWorker ==
    [pc |-> "idle", query |-> None, documents |-> <<>>, found |-> {},
     put |-> NoPut, read |-> NoRead, error |-> None, raised |-> FALSE,
     searches |-> 0, repeat |-> FALSE, success |-> FALSE]

\* the retrieval of request r for the query missed the query result cache
\* and ended with an error or with no document
EndedEmpty(r, query) ==
    /\ r.query = query
    /\ r.pc \in {"context", "idle"}
    /\ r.read.cache = "query_result"
    /\ r.read.outcome # "hit"
    /\ (r.error # None \/ r.documents = <<>>)

\* committed and done are history: the sources whose store deletion has
\* committed, and those whose cache invalidation has completed as well
IdleDeleter ==
    [pc |-> "idle", source_file |-> None, committed |-> {}, done |-> {}]

----------------------------------------------------------------------------
(* Ingestion: the files, the chunks and the runs *)

\* the file the ingestion processes are run on
WatchedFile == SrcA

\* the threads that run DocumentFileHandler._process_file: the observer
\* thread, which handles the events one after the other, and the Timer
\* thread of a scheduled retry
WatcherThreads == {"watcher", "timer"}

\* the watcher's threads, the periodic checker's loop, the startup
\* auto-ingest thread, and a run of ingest_path_incremental
Ingesters == WatcherThreads \cup {"checker", "startup"}
Processes == Ingesters \cup {"incremental"}

\* id SERIAL: a fresh id for every inserted row
RowId(run, chunk_index) == run * 10 + chunk_index

\* chunk_text of the file's text: the chunk indexes
ChunkIndexes == 0..(NChunks - 1)

\* the row ingestion builds of one chunk of the text it read
ChunkRow(run, source_file, chunk_index, version) ==
    StoredRow(RowId(run, chunk_index), source_file, chunk_index, version)

\* mutant of ExistingFiles: no source is reported
ExistingFilesNone(rows) == {}

\* the source files dao.count_documents_by_source reports
ExistingFiles(rows) == {r.source_file : r \in rows}

\* _is_file_already_ingested: SELECT 1 FROM documents WHERE source_file = ..
IsFileAlreadyIngested(rows, abs_path) ==
    \E r \in rows : r.source_file = abs_path

\* mutant of Execute: every INSERT is committed on its own
ExecuteAutocommit(rows, staged, row) ==
    [visible |-> rows \cup {row}, staged |-> staged]

\* cur.execute(INSERT ..) inside the transaction of insert_documents_batch:
\* the row is staged, the committed rows are as before
Execute(rows, staged, row) ==
    [visible |-> rows, staged |-> staged \cup {row}]

\* auto_ingest_retry_initial_delay and auto_ingest_retry_max_delay, seconds
InitialDelay == 2
MaxDelay == 30

RECURSIVE Pow2(_)
Pow2(n) == IF n = 0 THEN 1 ELSE 2 * Pow2(n - 1)

Min(a, b) == IF a < b THEN a ELSE b

\* delay = min(max_delay, base_delay * (2 ** attempt))
RetryDelay(attempt) == Min(MaxDelay, InitialDelay * Pow2(attempt))

\* mutant of InProcessingFiles: no event is taken for a duplicate
InProcessingFilesNever(files, file_str, attempt) == FALSE

\* the test made under processing_lock: only a first attempt gives way to
\* a file that is already being processed
InProcessingFiles(files, file_str, attempt) ==
    attempt = 0 /\ file_str \in files

\* a process between two runs; had, failed, stale and target are history:
\* whether the file was in the store when ingest_path was entered, whether
\* this run met a failure, whether the store held older chunks of the file
\* when ingest_path_incremental was entered, and the file's mtime then;
\* delay is the delay of the Timer a retry waits on; retried and reported
\* are history: whether this attempt scheduled a retry, and whether it
\* logged the file at error level
IdleIngester ==
    [pc |-> "idle", run |-> 0, attempt |-> 0, existing |-> <<>>,
     version |-> 0, staged |-> {}, next |-> 0, ret |-> -1,
     had |-> FALSE, failed |-> FALSE, stale |-> FALSE, target |-> 0,
     delay |-> 0, retried |-> FALSE, reported |-> FALSE]

\* no run over a directory; files, order, first, ok, bad and skipped are
\* history: the files find_files yields and their order, the number of file
\* ingestions made before the run, and the files of the run that were
\* ingested, that met a failure, and that were skipped
IdleDir ==
    [pc |-> "idle", mode |-> None, existing |-> <<>>, todo |-> <<>>,
     total_chunks |-> 0, ret |-> -1, order |-> <<>>, first |-> 0,
     ok |-> {}, bad |-> {}, skipped |-> {}]

\* a file that does not exist
Absent == [exists |-> FALSE, size |-> 0, mtime |-> 0]

\* no call of _wait_for_file_ready, and no file; polls, at, result and
\* ingested are history: what the polls of the call saw, the time of its
\* last test of the deadline, what it returned, and whether its caller went
\* on to the ingestion
IdleWait ==
    [pc |-> "idle", caller |-> None, file |-> Absent,
     stability_checks |-> 0, deadline |-> 0, last_fingerprint |-> Absent,
     stable_count |-> 0, polls |-> <<>>, at |-> 0, result |-> None,
     ingested |-> FALSE]

IngestIdle ==
    /\ dir = IdleDir
    /\ wait = IdleWait
    /\ disk = [f \in Sources |-> 0]
    /\ ing = [p \in Processes |-> IdleIngester]
    /\ processing_files = {}
    /\ runs = 0
    /\ aborted = {}
    /\ seen = {}

PipelineIdle ==
    /\ store = {}
    /\ qw = [w \in Workers |-> IdleWorker]
    /\ del = IdleDeleter
    /\ IngestIdle

----------------------------------------------------------------------------
(* The cache-level runs: any sequence of calls on one cache instance *)

CacheNames == {"embedding", "query_result", "response"}

NoCall == [op |-> "none", cache |-> None, key |-> None, outcome |-> None,
           value |-> None, src |-> None, count |-> 0]

Call(op, cache, key, outcome, value, src, count) ==
    [op |-> op, cache |-> cache, key |-> key, outcome |-> outcome,
     value |-> value, src |-> src, count |-> count]

CachesEmpty ==
    /\ embCache = <<>> /\ embHits = 0 /\ embMisses = 0
    /\ qrcCache = <<>> /\ qrcHits = 0 /\ qrcMisses = 0
    /\ rcCache = EmptyDict /\ rcOrder = <<>>
    /\ rcHits = 0 /\ rcMisses = 0 /\ rcEvictions = 0

embVars == <<embCache, embHits, embMisses>>
qrcVars == <<qrcCache, qrcHits, qrcMisses>>
rcVars == <<rcCache, rcOrder, rcHits, rcMisses, rcEvictions>>

InitCache ==
    /\ exercised \in CacheNames
    /\ now = 0
    /\ CachesEmpty
    /\ ret = NoCall
    /\ PipelineIdle

\* time passes
Tick ==
    /\ now < MaxTime
    /\ now' = now + 1
    /\ ret' = Call("tick", None, None, None, None, None, 0)
    /\ UNCHANGED <<pipelineVars, exercised, cacheVars>>

EmbGet(text) ==
    LET key == EmbKey(text, EmbModel)
        r == ODGet(embCache, key, now, TTL)
    IN /\ exercised = "embedding"
       /\ embHits + embMisses < MaxCount
       /\ embCache' = r.cache
       /\ embHits' = IF r.outcome = "hit" THEN embHits + 1 ELSE embHits
       /\ embMisses' = IF r.outcome = "hit" THEN embMisses ELSE embMisses + 1
       /\ ret' = Call("get", "embedding", key, r.outcome, r.value, None, 0)
       /\ UNCHANGED <<pipelineVars, exercised, now, qrcVars, rcVars>>

EmbPut(text) ==
    LET key == EmbKey(text, EmbModel)
    IN /\ exercised = "embedding"
       /\ embCache' = ODPut(embCache, key, Embed(text), now, MaxSize)
       /\ ret' = Call("put", "embedding", key, None, Embed(text), None,
                      Len(ODMoveToEnd(ODSet(embCache, key, Embed(text), now),
                                      key)) - Len(embCache'))
       /\ UNCHANGED <<pipelineVars, exercised, now, embHits, embMisses, qrcVars, rcVars>>

EmbClear ==
    /\ exercised = "embedding"
    /\ embCache' = <<>>
    /\ ret' = Call("clear", "embedding", None, None, None, None, 0)
    /\ UNCHANGED <<pipelineVars, exercised, now, embHits, embMisses, qrcVars, rcVars>>

QrcGet(query) ==
    LET key == RetrievalKey(query, "keyword")
        r == ODGet(qrcCache, key, now, TTL)
    IN /\ exercised = "query_result"
       /\ qrcHits + qrcMisses < MaxCount
       /\ qrcCache' = r.cache
       /\ qrcHits' = IF r.outcome = "hit" THEN qrcHits + 1 ELSE qrcHits
       /\ qrcMisses' = IF r.outcome = "hit" THEN qrcMisses ELSE qrcMisses + 1
       /\ ret' = Call("get", "query_result", key, r.outcome, r.value, None, 0)
       /\ UNCHANGED <<pipelineVars, exercised, now, embVars, rcVars>>

QrcPut(query, documents) ==
    LET key == RetrievalKey(query, "keyword")
    IN /\ exercised = "query_result"
       /\ qrcCache' = ODPut(qrcCache, key, documents, now, MaxSize)
       /\ ret' = Call("put", "query_result", key, None, documents, None,
                      Len(ODMoveToEnd(ODSet(qrcCache, key, documents, now),
                                      key)) - Len(qrcCache'))
       /\ UNCHANGED <<pipelineVars, exercised, now, qrcHits, qrcMisses, embVars, rcVars>>

QrcClear ==
    /\ exercised = "query_result"
    /\ qrcCache' = <<>>
    /\ ret' = Call("clear", "query_result", None, None, None, None, 0)
    /\ UNCHANGED <<pipelineVars, exercised, now, qrcHits, qrcMisses, embVars, rcVars>>

QrcInvalidateBySource(source_file) ==
    /\ exercised = "query_result"
    /\ qrcCache' = QrcInvalidate(qrcCache, source_file)
    /\ ret' = Call("invalidate_by_source", "query_result", None, None, None,
                   source_file,
                   Cardinality(QrcKeysToRemove(qrcCache, source_file)))
    /\ UNCHANGED <<pipelineVars, exercised, now, qrcHits, qrcMisses, embVars, rcVars>>

RcGet(query) ==
    LET key == RcKey(query, None, DefaultModel)
        r == RCGet(rcCache, rcOrder, key, now, TTL)
    IN /\ exercised = "response"
       /\ rcHits + rcMisses < MaxCount
       /\ rcCache' = r.cache
       /\ rcOrder' = r.order
       /\ rcHits' = IF r.outcome = "hit" THEN rcHits + 1 ELSE rcHits
       /\ rcMisses' = IF r.outcome = "hit" THEN rcMisses ELSE rcMisses + 1
       /\ ret' = Call("get", "response", key, r.outcome, r.value, None, 0)
       /\ UNCHANGED <<pipelineVars, exercised, now, rcEvictions, embVars, qrcVars>>

RcPut(query, documents) ==
    LET key == RcKey(query, None, DefaultModel)
        entry == CachedResponse(BuildContextSources(documents), now, documents)
        r == RCPut(rcCache, rcOrder, rcEvictions, key, entry, MaxSize)
    IN /\ exercised = "response"
       /\ r.evictions <= MaxCount
       /\ rcCache' = r.cache
       /\ rcOrder' = r.order
       /\ rcEvictions' = r.evictions
       /\ ret' = Call("put", "response", key,
                      IF r.raised THEN "raised" ELSE None, entry, None,
                      r.evictions - rcEvictions)
       /\ UNCHANGED <<pipelineVars, exercised, now, rcHits, rcMisses, embVars, qrcVars>>

RcClear ==
    /\ exercised = "response"
    /\ rcCache' = EmptyDict
    /\ rcOrder' = <<>>
    /\ ret' = Call("clear", "response", None, None, None, None, 0)
    /\ UNCHANGED <<pipelineVars, exercised, now, rcHits, rcMisses, rcEvictions, embVars,
                   qrcVars>>

RcInvalidateBySource(source_file) ==
    LET keys == RcKeysToRemove(rcCache, source_file)
        r == RCRemoveKeys(rcCache, rcOrder, keys)
    IN /\ exercised = "response"
       /\ rcCache' = r.cache
       /\ rcOrder' = r.order
       /\ ret' = Call("invalidate_by_source", "response", None, None, None,
                      source_file, Cardinality(keys))
       /\ UNCHANGED <<pipelineVars, exercised, now, rcHits, rcMisses, rcEvictions, embVars,
                      qrcVars>>

RcCleanupExpired ==
    LET keys == RcExpiredKeys(rcCache, now, TTL)
        r == RCRemoveKeys(rcCache, rcOrder, keys)
    IN /\ exercised = "response"
       /\ rcCache' = r.cache
       /\ rcOrder' = r.order
       /\ ret' = Call("cleanup_expired", "response", None, None, None, None,
                      Cardinality(keys))
       /\ UNCHANGED <<pipelineVars, exercised, now, rcHits, rcMisses, rcEvictions, embVars,
                      qrcVars>>

NextCache ==
    \/ Tick
    \/ \E text \in Texts : EmbGet(text)
    \/ \E text \in Texts : EmbPut(text)
    \/ EmbClear
    \/ \E query \in Queries : QrcGet(query)
    \/ \E query \in Queries : QrcPut(query, SampleResult(query))
    \/ QrcClear
    \/ \E source_file \in Sources : QrcInvalidateBySource(source_file)
    \/ \E query \in Queries : RcGet(query)
    \/ \E query \in Queries : RcPut(query, SampleResult(query))
    \/ RcClear
    \/ \E source_file \in Sources : RcInvalidateBySource(source_file)
    \/ RcCleanupExpired

SpecCache == InitCache /\ [][NextCache]_vars

----------------------------------------------------------------------------
(* What a cache holds, whichever way it stores it: the stored keys, each    *)
(* key's value and timestamp, the source files its value was made from, the *)
(* stored keys from least to most recently used, and the counters           *)

EntryMap(c) == [k \in ODKeys(c) |-> ODEntry(c, k)]

CacheView(name, emb, embH, embM, qrc, qrcH, qrcM, rc, rcO, rcH, rcM, rcE) ==
    CASE name = "embedding" ->
           [keys |-> ODKeys(emb),
            value |-> [k \in ODKeys(emb) |-> ODEntry(emb, k).value],
            ts |-> [k \in ODKeys(emb) |-> ODEntry(emb, k).ts],
            from |-> [k \in ODKeys(emb) |-> {}],
            recency |-> ODKeyOrder(emb),
            hits |-> embH, misses |-> embM, evictions |-> 0]
      [] name = "query_result" ->
           [keys |-> ODKeys(qrc),
            value |-> [k \in ODKeys(qrc) |-> ODEntry(qrc, k).value],
            ts |-> [k \in ODKeys(qrc) |-> ODEntry(qrc, k).ts],
            from |-> [k \in ODKeys(qrc) |-> RowSources(ODEntry(qrc, k).value)],
            recency |-> ODKeyOrder(qrc),
            hits |-> qrcH, misses |-> qrcM, evictions |-> 0]
      [] OTHER ->
           [keys |-> DOMAIN rc,
            value |-> rc,
            ts |-> [k \in DOMAIN rc |-> rc[k].ts],
            from |-> [k \in DOMAIN rc |-> RowSources(rc[k].origin)],
            recency |-> SelectSeq(rcO, LAMBDA k : k \in DOMAIN rc),
            hits |-> rcH, misses |-> rcM, evictions |-> rcE]

Before(name) ==
    CacheView(name, embCache, embHits, embMisses, qrcCache, qrcHits,
              qrcMisses, rcCache, rcOrder, rcHits, rcMisses, rcEvictions)

After(name) ==
    CacheView(name, embCache', embHits', embMisses', qrcCache', qrcHits',
              qrcMisses', rcCache', rcOrder', rcHits', rcMisses',
              rcEvictions')

Without(seq, keys) == SelectSeq(seq, LAMBDA k : k \notin keys)

----------------------------------------------------------------------------
(* Claims about the caches *)

\* C1: after invalidate_by_source(f) on a cache, no get returns a hit for a
\* key whose cached value was made from source file f: every entry made from
\* f that the cache still holds is one a get treats as absent (expired).
C1_InvalidateBySourceUnreachable ==
    ret.op = "invalidate_by_source" =>
        \A k \in Before(ret.cache).keys :
            ret.src \in Before(ret.cache).from[k] =>
                IsExpired(Before(ret.cache).ts[k], now, TTL)

\* C3: no cache ever holds more than max_size entries.
C3_CacheSizeBound ==
    \A name \in CacheNames : Cardinality(Before(name).keys) <= MaxSize

\* C3 witness: a put on a full query-result cache has just evicted an entry.
C3_Witness ==
    /\ ret.op = "put" /\ ret.cache = "query_result" /\ ret.count >= 1
    /\ Len(qrcCache) = MaxSize

\* C4: a put of a new key into a cache holding max_size entries leaves
\* max_size entries and removes exactly the least recently used key; a put
\* and a get hit make their key the most recently used one and keep the
\* order of the others.
C4_LRUEviction ==
    [][\A name \in CacheNames :
        LET b == Before(name)
            a == After(name)
            key == ret'.key
        IN (ret'.cache = name) =>
            /\ (ret'.op = "put" /\ key \notin b.keys
                    /\ Len(b.recency) = MaxSize) =>
                    /\ Cardinality(a.keys) = MaxSize
                    /\ a.keys = (b.keys \ {Head(b.recency)}) \cup {key}
                    /\ a.recency = Append(Tail(b.recency), key)
            /\ (ret'.op = "put" /\ (key \in b.keys
                    \/ Len(b.recency) < MaxSize)) =>
                    a.recency = Append(Without(b.recency, {key}), key)
            /\ (ret'.op = "get" /\ ret'.outcome = "hit") =>
                    a.recency = Append(Without(b.recency, {key}), key)
      ]_vars

\* C4 witness: the response cache has evicted on a put made after a get hit
\* had reordered its keys.
C4_Witness ==
    /\ ret.op = "put" /\ ret.cache = "response" /\ ret.count = 1
    /\ rcHits >= 1 /\ Cardinality(DOMAIN rcCache) = MaxSize

\* C5: a put stores the value; a get of a stored key made before ttl_seconds
\* have passed since its put returns the value and adds one to the hits; a
\* get made more than ttl_seconds after the put returns absent, removes the
\* entry and adds one to the misses.
C5_CacheTTL ==
    [][\A name \in CacheNames :
        LET b == Before(name)
            a == After(name)
            key == ret'.key
        IN (ret'.cache = name) =>
            /\ (ret'.op = "put") =>
                    /\ key \in a.keys
                    /\ a.ts[key] = now
            /\ (ret'.op = "get" /\ key \in b.keys /\ now - b.ts[key] < TTL) =>
                    /\ ret'.outcome = "hit"
                    /\ ret'.value = b.value[key]
                    /\ a.hits = b.hits + 1
                    /\ a.misses = b.misses
            /\ (ret'.op = "get" /\ key \in b.keys /\ now - b.ts[key] > TTL) =>
                    /\ ret'.outcome = "expired"
                    /\ ret'.value = None
                    /\ key \notin a.keys
                    /\ a.misses = b.misses + 1
                    /\ a.hits = b.hits
      ]_vars

\* C5 witness: a get has found its entry older than ttl_seconds.
C5_Witness ==
    ret.op = "get" /\ ret.outcome = "expired" /\ ret.value = None

\* C27: the access_order list of the response cache holds exactly the keys
\* of the cache dictionary, each once, after any sequence of get, put,
\* invalidate_by_source, cleanup_expired and clear; the eviction of a put
\* never runs out of keys to pop, and every key it pops is a stored one.
C27_IndexConsistency ==
    /\ {rcOrder[i] : i \in 1..Len(rcOrder)} = DOMAIN rcCache
    /\ Len(rcOrder) = Cardinality(DOMAIN rcCache)
    /\ (ret.op = "put" /\ ret.cache = "response") =>
           /\ ret.outcome # "raised"
           /\ ret.key \in DOMAIN rcCache
           /\ ret.count >= 1 => Len(rcOrder) = MaxSize

\* C27 witness: a put into the response cache has evicted a key after an
\* invalidate_by_source, a cleanup_expired or an expired get had removed
\* others and hits had reordered the list.
C27_Witness ==
    /\ ret.op = "put" /\ ret.cache = "response" /\ ret.count = 1
    /\ rcHits >= 1 /\ rcMisses >= 1
    /\ Len(rcOrder) = MaxSize
    /\ rcOrder[Len(rcOrder)] = ret.key

\* C6: invalidate_by_source(f) removes exactly the entries whose value
\* references f, returns how many it removed, and leaves the other entries,
\* their order and the counters as they were.
C6_InvalidateBySourceExact ==
    [][\A name \in CacheNames :
        LET b == Before(name)
            a == After(name)
            referencing == {k \in b.keys : ret'.src \in b.from[k]}
        IN (ret'.op = "invalidate_by_source" /\ ret'.cache = name) =>
            /\ a.keys = b.keys \ referencing
            /\ ret'.count = Cardinality(referencing)
            /\ \A k \in a.keys : a.value[k] = b.value[k]
            /\ a.recency = Without(b.recency, referencing)
            /\ a.hits = b.hits /\ a.misses = b.misses
            /\ a.evictions = b.evictions
      ]_vars

----------------------------------------------------------------------------
(* The query pipeline against source deletions: /generate requests served   *)
(* on the event loop, and the thread that handles a deleted source file     *)
(* (the watcher's delete event, the orphan cleanup)                         *)

QueryInputs == {"q1", "q2", "q4"}

InitQuery ==
    /\ exercised = "response"
    /\ now = 0
    /\ CachesEmpty
    /\ ret = NoCall
    /\ store = {StoredRow(1, SrcA, 0, 1), StoredRow(2, SrcB, 0, 1)}
    /\ qw = [w \in Workers |-> IdleWorker]
    /\ del = IdleDeleter
    /\ IngestIdle

\* the requests share one event loop: between two awaits of a request no
\* other request runs
EventLoopFree(w) ==
    \A v \in Workers \ {w} : qw[v].pc \notin {"search", "post"}

Read(cache, outcome, refs) ==
    [cache |-> cache, outcome |-> outcome, refs |-> refs,
     committed |-> del.committed]

\* /generate up to the response cache lookup: a hit is the answer
Generate(w, query) ==
    LET key == RcKey(query, None, DefaultModel)
        r == RCGet(rcCache, rcOrder, key, now, TTL)
        hit == r.outcome = "hit"
    IN /\ qw[w].pc = "idle"
       /\ EventLoopFree(w)
       /\ rcHits + rcMisses < MaxCount
       /\ rcCache' = r.cache
       /\ rcOrder' = r.order
       /\ rcHits' = IF hit THEN rcHits + 1 ELSE rcHits
       /\ rcMisses' = IF hit THEN rcMisses ELSE rcMisses + 1
       /\ qw' = [qw EXCEPT ![w] =
                   [pc |-> IF hit THEN "idle" ELSE "retrieve",
                    query |-> query, documents |-> <<>>, found |-> {},
                    put |-> NoPut,
                    read |-> Read("response", r.outcome,
                                  IF hit THEN RowSources(r.value.origin)
                                  ELSE {}),
                    error |-> None, raised |-> FALSE, searches |-> 0,
                    repeat |-> \E v \in Workers : EndedEmpty(qw[v], query),
                    success |-> FALSE]]
       /\ UNCHANGED <<ingestVars, exercised, now, ret, embVars, qrcVars, rcEvictions,
                      store, del>>

\* a call of retrieve_documents failed: the except clause returns the empty
\* result, an exception outside the try ends the request
Failure(w, site) ==
    [qw[w] EXCEPT !.pc = IF Propagates(site) THEN "idle" ELSE "context",
                  !.documents = <<>>,
                  !.error = site,
                  !.raised = Propagates(site)]

\* retrieve_documents up to the query result cache lookup: a hit is the
\* retrieval result, once the documents of the store are counted
Retrieve(w, ok) ==
    LET strategy == DetermineOptimalStrategy(qw[w].query)
        key == RetrievalKey(qw[w].query, strategy)
        r == ODGet(qrcCache, key, now, TTL)
        hit == r.outcome = "hit"
        read == Read("query_result", r.outcome,
                     IF hit THEN RowSources(r.value) ELSE {})
    IN /\ qw[w].pc = "retrieve"
       /\ EventLoopFree(w)
       /\ qrcCache' = r.cache
       /\ qrcHits' = IF hit THEN qrcHits + 1 ELSE qrcHits
       /\ qrcMisses' = IF hit THEN qrcMisses ELSE qrcMisses + 1
       /\ qw' = [qw EXCEPT ![w] =
                   IF hit /\ ~ok
                   THEN [Failure(w, "cache_hit") EXCEPT !.read = read]
                   ELSE [qw[w] EXCEPT
                            !.pc = IF hit THEN "context"
                                   ELSE IF NeedsEmbedding(strategy)
                                   THEN "embed" ELSE "search",
                            !.documents = IF hit THEN r.value ELSE <<>>,
                            !.read = read]]
       /\ UNCHANGED <<ingestVars, exercised, now, ret, embVars, rcVars, store, del>>

\* vectors = await embed_texts([query]); the request goes on when the event
\* loop is free
EmbedQuery(w, ok) ==
    /\ qw[w].pc = "embed"
    /\ EventLoopFree(w)
    /\ qw' = [qw EXCEPT ![w] = IF ok
                               THEN [qw[w] EXCEPT !.pc = "search"]
                               ELSE Failure(w, "embed")]
    /\ UNCHANGED <<ingestVars, exercised, now, ret, cacheVars, store, del>>

\* the search of the store; a database error is caught by retrieve_documents
\* and yields the empty result
Search(w, ok) ==
    LET strategy == DetermineOptimalStrategy(qw[w].query)
        documents == DaoSearch(store, qw[w].query, strategy, TopK)
    IN /\ qw[w].pc = "search"
       /\ qw' = [qw EXCEPT ![w] =
                   IF ok
                   THEN [qw[w] EXCEPT !.pc = "post",
                                      !.documents = documents,
                                      !.found = RowSources(documents),
                                      !.searches = qw[w].searches + 1]
                   ELSE [Failure(w, "search") EXCEPT
                            !.searches = qw[w].searches + 1]]
       /\ UNCHANGED <<ingestVars, exercised, now, ret, cacheVars, store, del>>

\* mutant of Caches: an empty result is put as well
CachesAlways(documents) == TRUE

\* if cache is not None and cache_key_params is not None and documents
Caches(documents) == documents # <<>>

\* retrieve_documents after the search: log, filter, put a result that is
\* not empty into the query result cache, and count the documents of the
\* store
Post(w, ok) ==
    LET strategy == DetermineOptimalStrategy(qw[w].query)
        r == AfterSearch(qw[w].documents, strategy)
        key == RetrievalKey(qw[w].query, strategy)
        caches == Caches(r.documents)
        put == IF caches
               THEN [cache |-> "query_result", done |-> del.done]
               ELSE qw[w].put
    IN /\ qw[w].pc = "post"
       /\ qrcCache' = IF caches
                      THEN ODPut(qrcCache, key, r.documents, now, MaxSize)
                      ELSE qrcCache
       /\ qw' = [qw EXCEPT ![w] =
                   IF r.raised
                   THEN [Failure(w, "log") EXCEPT !.put = put]
                   ELSE IF ~ok
                   THEN [Failure(w, "count") EXCEPT !.put = put]
                   ELSE [qw[w] EXCEPT !.pc = "context",
                                      !.documents = r.documents,
                                      !.put = put]]
       /\ UNCHANGED <<ingestVars, exercised, now, ret, embVars, qrcHits, qrcMisses,
                      rcVars, store, del>>

\* generate_response from the retrieval result on, and the rest of
\* /generate: a response the model produced is put into the response cache
Respond(w, success) ==
    LET key == RcKey(qw[w].query, None, DefaultModel)
        sources == BuildContextSources(qw[w].documents)
        entry == CachedResponse(sources, now, qw[w].documents)
        r == RCPut(rcCache, rcOrder, rcEvictions, key, entry, MaxSize)
    IN /\ qw[w].pc = "context"
       /\ EventLoopFree(w)
       /\ rcCache' = IF success THEN r.cache ELSE rcCache
       /\ rcOrder' = IF success THEN r.order ELSE rcOrder
       /\ rcEvictions' = IF success THEN r.evictions ELSE rcEvictions
       /\ qw' = [qw EXCEPT ![w].pc = "idle",
                           ![w].success = success,
                           ![w].put = IF success
                                      THEN [cache |-> "response",
                                            done |-> del.done]
                                      ELSE qw[w].put]
       /\ UNCHANGED <<ingestVars, exercised, now, ret, embVars, qrcVars, rcHits,
                      rcMisses, store, del>>

\* dao.delete_documents_by_source commits the deletion of the source's rows
DeleteDocuments(source_file) ==
    /\ del.pc = "idle"
    /\ \E r \in store : r.source_file = source_file
    /\ store' = DeleteBySource(store, source_file)
    /\ del' = [del EXCEPT !.pc = "response",
                          !.source_file = source_file,
                          !.committed = del.committed \cup {source_file}]
    /\ UNCHANGED <<ingestVars, exercised, now, ret, cacheVars, qw>>

\* response_cache.invalidate_by_source(source_file)
InvalidateResponseCache ==
    LET keys == RcKeysToRemove(rcCache, del.source_file)
        r == RCRemoveKeys(rcCache, rcOrder, keys)
    IN /\ del.pc = "response"
       /\ rcCache' = r.cache
       /\ rcOrder' = r.order
       /\ del' = [del EXCEPT !.pc = "query_result"]
       /\ UNCHANGED <<ingestVars, exercised, now, ret, embVars, qrcVars, rcHits,
                      rcMisses, rcEvictions, store, qw>>

\* query_cache.invalidate_by_source(source_file)
InvalidateQueryCache ==
    /\ del.pc = "query_result"
    /\ qrcCache' = QrcInvalidate(qrcCache, del.source_file)
    /\ del' = [del EXCEPT !.pc = "idle",
                          !.done = del.done \cup {del.source_file}]
    /\ UNCHANGED <<ingestVars, exercised, now, ret, embVars, qrcHits, qrcMisses, rcVars,
                   store, qw>>

NextQuery ==
    \/ \E w \in Workers, query \in QueryInputs : Generate(w, query)
    \/ \E w \in Workers, ok \in BOOLEAN : Retrieve(w, ok)
    \/ \E w \in Workers, ok \in BOOLEAN : EmbedQuery(w, ok)
    \/ \E w \in Workers, ok \in BOOLEAN : Search(w, ok)
    \/ \E w \in Workers, ok \in BOOLEAN : Post(w, ok)
    \/ \E w \in Workers, success \in BOOLEAN : Respond(w, success)
    \/ \E source_file \in Sources : DeleteDocuments(source_file)
    \/ InvalidateResponseCache
    \/ InvalidateQueryCache

SpecQuery == InitQuery /\ [][NextQuery]_vars

C16_KeywordFallback ==
    \A w \in Workers :
        (qw[w].pc = "context" /\ qw[w].error = "embed"
                             /\ del.committed = {}) =>
            qw[w].documents = SearchKeyword(store, qw[w].query, TopK)

\* C21: within one call of retrieve_documents the get of the query result
\* cache comes before the embedding and the search; on a hit no search of
\* the store is run; on a miss, once the query is embedded, the search runs
\* exactly once and its filtered result is put into the cache and returned.
C21_CacheReadPrecedesSearch ==
    \A w \in Workers :
        LET r == qw[w]
            looked == r.read.cache = "query_result"
            strategy == DetermineOptimalStrategy(r.query)
        IN /\ r.pc \in {"embed", "search", "post"} =>
                  looked /\ r.read.outcome # "hit"
           /\ r.searches > 0 => looked
           /\ (looked /\ r.read.outcome = "hit") => r.searches = 0
           /\ (r.pc = "context" /\ looked /\ r.read.outcome # "hit"
                               /\ r.error # "embed") =>
                  /\ r.searches = 1
                  /\ (r.found # {} /\ r.error # "search") =>
                         /\ r.put.cache = "query_result"
                         /\ r.error = None =>
                                RowSources(FilterByRelevance(r.documents,
                                                             strategy))
                                    = r.found

\* C29: retrieve_documents never puts an empty document list or the result
\* of a failed retrieval into the query result cache, so a retrieval for the
\* same query that follows one ended by an error or without documents
\* misses the cache and searches the store again; and /generate puts a
\* response into the response cache only when the generation succeeded.
C29_OnlyRealResultsCached ==
    /\ \A k \in ODKeys(qrcCache) : ODEntry(qrcCache, k).value # <<>>
    /\ \A w \in Workers :
          LET r == qw[w]
              retrieved == r.read.cache = "query_result"
          IN /\ (retrieved /\ r.pc \in {"context", "idle"}
                     /\ (r.error # None \/ r.documents = <<>>)) =>
                    r.put.cache # "query_result"
             /\ (r.repeat /\ retrieved) => r.read.outcome # "hit"
             /\ (r.repeat /\ retrieved /\ r.pc \in {"context", "idle"}
                     /\ r.error \notin {"embed", "cache_hit"}) =>
                    r.searches = 1
             /\ r.put.cache = "response" => r.success

\* C29 witness: a request whose search failed was answered without a put,
\* and the next request for the same query has searched the store again
C29_Witness ==
    \E w, v \in Workers :
        /\ w # v
        /\ qw[w].pc = "idle" /\ qw[w].error = "search" /\ ~qw[w].success
        /\ qw[w].put = NoPut
        /\ qw[v].query = qw[w].query
        /\ qw[v].repeat /\ qw[v].searches = 1
        /\ qw[v].pc = "idle" /\ qw[v].success
        /\ qw[v].put.cache = "response"
        /\ qrcCache = <<>>

----------------------------------------------------------------------------
(* Ingestion of one file by the watcher, the periodic checker and the       *)
(* startup auto-ingest, each on its own thread, and a reader of the store   *)

queryVars == <<exercised, now, cacheVars, ret, qw, del, dir, wait>>

RunOf(id) == id \div 10

NoRows == [rows |-> {}, staging |-> {}]

InitIngest ==
    /\ exercised = "response"
    /\ now = 0
    /\ CachesEmpty
    /\ ret = NoCall
    /\ store = {}
    /\ qw = [w \in Workers |-> IdleWorker]
    /\ del = IdleDeleter
    /\ disk = [f \in Sources |-> IF f = WatchedFile THEN 1 ELSE 0]
    /\ ing = [p \in Processes |-> IdleIngester]
    /\ processing_files = {}
    /\ runs = 0
    /\ aborted = {}
    /\ seen = NoRows
    /\ dir = IdleDir
    /\ wait = IdleWait

StartRun(pc) == [IdleIngester EXCEPT !.pc = pc, !.run = runs + 1]

\* the end of a run: ingest_path returns n; _process_file's finally removes
\* the file from processing_files
FinishRun(p, n, failure) ==
    [ing[p] EXCEPT !.pc = "idle", !.ret = n, !.staged = {}, !.next = 0,
                   !.failed = failure]

\* mutant of Discard: the finally clause leaves the file in the set
DiscardNothing(p) == processing_files

Discard(p) ==
    IF p \in WatcherThreads
    THEN processing_files \ {WatchedFile}
    ELSE processing_files

\* the file is in the store with the content it has on disk
IngestedUnchanged ==
    /\ disk[WatchedFile] > 0
    /\ \E r \in store : r.source_file = WatchedFile
    /\ \A r \in store :
          r.source_file = WatchedFile => r.version = disk[WatchedFile]

\* the except and finally clauses of _process_file: while attempts are
\* left a Timer is started for the next one and the file stays in
\* processing_files; after the last one the file is logged at error level
\* and leaves processing_files
ProcessFileFailed(p) ==
    IF ing[p].attempt < MaxRetries
    THEN /\ ing' = [q \in Processes |->
                      IF q = "timer"
                      THEN [IdleIngester EXCEPT
                               !.pc = "scheduled",
                               !.run = ing[p].run,
                               !.attempt = ing[p].attempt + 1,
                               !.delay = RetryDelay(ing[p].attempt)]
                      ELSE IF q = p
                      THEN [ing[p] EXCEPT !.pc = "idle", !.failed = TRUE,
                                          !.retried = TRUE]
                      ELSE ing[q]]
         /\ UNCHANGED processing_files
    ELSE /\ ing' = [ing EXCEPT ![p].pc = "idle", ![p].failed = TRUE,
                               ![p].reported = TRUE]
         /\ processing_files' = Discard(p)

\* on_created -> _process_file(file_path, attempt=0), up to the end of the
\* locked block: a file already being processed is left alone; the observer
\* thread takes the event when it has returned from the handler before
OnCreated ==
    /\ ing["watcher"].pc = "idle"
    /\ del.pc = "idle"
    /\ runs < MaxRuns
    /\ disk[WatchedFile] > 0
    /\ IF InProcessingFiles(processing_files, WatchedFile, 0)
       THEN UNCHANGED <<ing, processing_files, runs>>
       ELSE /\ processing_files' = processing_files \cup {WatchedFile}
            /\ ing' = [ing EXCEPT !["watcher"] = StartRun("ready")]
            /\ runs' = runs + 1
    /\ UNCHANGED <<queryVars, store, disk, aborted, seen>>

\* the timer of _schedule_retry fires: _process_file(file_path, attempt > 0)
Retry ==
    /\ ing["timer"].pc = "scheduled"
    /\ ~InProcessingFiles(processing_files, WatchedFile,
                          ing["timer"].attempt)
    /\ processing_files' = processing_files \cup {WatchedFile}
    /\ ing' = [ing EXCEPT !["timer"].pc = "ready"]
    /\ UNCHANGED <<queryVars, store, disk, runs, aborted, seen>>

\* PeriodicFileChecker._check_for_new_files up to the list of the files on
\* disk that the store does not hold
CheckForNewFiles ==
    LET current_files == {f \in Sources : disk[f] > 0}
        missing_files == current_files \ ExistingFiles(store)
    IN /\ ing["checker"].pc = "idle"
       /\ runs < MaxRuns
       /\ ing' = [ing EXCEPT !["checker"] =
                     StartRun(IF WatchedFile \in missing_files
                              THEN "ready" ELSE "idle")]
       /\ runs' = runs + 1
       /\ UNCHANGED <<queryVars, store, disk, processing_files, aborted,
                      seen>>

\* _wait_for_file_ready: the watcher raises on a file that is not ready and
\* schedules a retry while attempts are left; the checker skips the file
WaitForFileReady(p, ready) ==
    /\ p \in WatcherThreads \cup {"checker"}
    /\ ing[p].pc = "ready"
    /\ IF ready /\ disk[WatchedFile] > 0
       THEN /\ ing' = [ing EXCEPT ![p].pc = "ingested"]
            /\ UNCHANGED processing_files
       ELSE IF p \in WatcherThreads
       THEN ProcessFileFailed(p)
       ELSE /\ ing' = [ing EXCEPT ![p].pc = "idle"]
            /\ processing_files' = Discard(p)
    /\ UNCHANGED <<queryVars, store, disk, runs, aborted, seen>>

\* _is_file_already_ingested: an ingested file is left alone, any other is
\* handed to ingest_path
AlreadyIngested(p, ok) ==
    /\ p \in WatcherThreads \cup {"checker"}
    /\ ing[p].pc = "ingested"
    /\ IF ~ok
       THEN IF p \in WatcherThreads
            THEN ProcessFileFailed(p)
            ELSE /\ ing' = [ing EXCEPT ![p].pc = "idle", ![p].failed = TRUE]
                 /\ processing_files' = Discard(p)
       ELSE IF IsFileAlreadyIngested(store, WatchedFile)
       THEN /\ ing' = [ing EXCEPT ![p].pc = "idle"]
            /\ processing_files' = Discard(p)
       ELSE /\ ing' = [ing EXCEPT ![p].pc = "check",
                                  ![p].had = IngestedUnchanged]
            /\ UNCHANGED processing_files
    /\ UNCHANGED <<queryVars, store, disk, runs, aborted, seen>>

\* the startup thread: ingest_path(auto_ingest_path), up to the file
StartupIngest ==
    /\ ing["startup"].pc = "idle"
    /\ runs < MaxRuns
    /\ ing' = [ing EXCEPT !["startup"] =
                  IF disk[WatchedFile] > 0
                  THEN [StartRun("check") EXCEPT !.had = IngestedUnchanged]
                  ELSE [StartRun("idle") EXCEPT !.ret = 0]]
    /\ runs' = runs + 1
    /\ UNCHANGED <<queryVars, store, disk, processing_files, aborted, seen>>

\* ingest_path: find_files yields nothing for a path that is gone, and a
\* file the store already holds is skipped
IngestCheck(p) ==
    /\ ing[p].pc = "check"
    /\ IF disk[WatchedFile] = 0 \/ WatchedFile \in ExistingFiles(store)
       THEN /\ ing' = [ing EXCEPT ![p] = FinishRun(p, 0, FALSE)]
            /\ processing_files' = Discard(p)
       ELSE /\ ing' = [ing EXCEPT ![p].pc = "read"]
            /\ UNCHANGED processing_files
    /\ UNCHANGED <<queryVars, store, disk, runs, aborted, seen>>

\* read_file_any and chunk_text; a file that cannot be read, or that yields
\* no chunk, ends the run
ReadAndChunk(p, ok) ==
    /\ ing[p].pc = "read"
    /\ IF ok /\ disk[WatchedFile] > 0
       THEN /\ ing' = [ing EXCEPT ![p].pc = "embed",
                                  ![p].version = disk[WatchedFile]]
            /\ UNCHANGED processing_files
       ELSE /\ ing' = [ing EXCEPT ![p] = FinishRun(p, 0, TRUE)]
            /\ processing_files' = Discard(p)
    /\ UNCHANGED <<queryVars, store, disk, runs, aborted, seen>>

\* the embedding of every batch of chunks; a batch that fails ends the run
\* before anything is inserted
EmbedBatches(p, ok) ==
    /\ ing[p].pc = "embed"
    /\ IF ok
       THEN /\ ing' = [ing EXCEPT ![p].pc = "insert"]
            /\ UNCHANGED <<processing_files, aborted>>
       ELSE /\ ing' = [ing EXCEPT ![p] = FinishRun(p, 0, TRUE)]
            /\ processing_files' = Discard(p)
            /\ aborted' = aborted \cup {ing[p].run}
    /\ UNCHANGED <<queryVars, store, disk, runs, seen>>

\* insert_documents_batch, one INSERT of the loop; an INSERT that raises
\* leaves the block, and the connection is rolled back on its return to the
\* pool
InsertRow(p, ok) ==
    LET row == ChunkRow(ing[p].run, WatchedFile, ing[p].next, ing[p].version)
        r == Execute(store, ing[p].staged, row)
    IN /\ ing[p].pc = "insert"
       /\ IF ok
          THEN /\ store' = r.visible
               /\ ing' = [ing EXCEPT ![p].staged = r.staged,
                                     ![p].next = ing[p].next + 1,
                                     ![p].pc = IF ing[p].next + 1 = NChunks
                                               THEN "commit" ELSE "insert"]
               /\ UNCHANGED <<processing_files, aborted>>
          ELSE /\ store' = store
               /\ ing' = [ing EXCEPT ![p] = FinishRun(p, 0, TRUE)]
               /\ processing_files' = Discard(p)
               /\ aborted' = aborted \cup {ing[p].run}
       /\ UNCHANGED <<queryVars, disk, runs, seen>>

\* conn.commit() of insert_documents_batch, and the return of ingest_path
Commit(p) ==
    /\ ing[p].pc = "commit"
    /\ store' = store \cup ing[p].staged
    /\ ing' = [ing EXCEPT ![p] = FinishRun(p, NChunks, FALSE)]
    /\ processing_files' = Discard(p)
    /\ UNCHANGED <<queryVars, disk, runs, aborted, seen>>

\* a reader of the store: dao.search with the file as source_file_filter
ReaderSearch ==
    /\ seen' = [rows |-> {r \in store : r.source_file = WatchedFile},
                staging |-> {ing[p].run : p \in {q \in Processes :
                                                   ing[q].staged # {}}}]
    /\ UNCHANGED <<queryVars, store, disk, ing, processing_files, runs,
                   aborted>>

NextIngest ==
    \/ OnCreated
    \/ Retry
    \/ CheckForNewFiles
    \/ \E p \in Ingesters, ready \in BOOLEAN : WaitForFileReady(p, ready)
    \/ \E p \in Ingesters, ok \in BOOLEAN : AlreadyIngested(p, ok)
    \/ StartupIngest
    \/ \E p \in Ingesters : IngestCheck(p)
    \/ \E p \in Ingesters, ok \in BOOLEAN : ReadAndChunk(p, ok)
    \/ \E p \in Ingesters, ok \in BOOLEAN : EmbedBatches(p, ok)
    \/ \E p \in Ingesters, ok \in BOOLEAN : InsertRow(p, ok)
    \/ \E p \in Ingesters : Commit(p)
    \/ ReaderSearch

SpecIngest == InitIngest /\ [][NextIngest]_vars

\* C7: a reader of the store sees either none of the chunk records of a file
\* being ingested or all of them, and no chunk record of a run whose
\* embedding or insertion failed is ever seen, before or after the failure.
C7_IngestionAtomic ==
    /\ {r.chunk_index : r \in seen.rows} \in {{}, ChunkIndexes}
    /\ \A r \in seen.rows : RunOf(r.id) \notin aborted

\* the reader read the store while a run had rows inserted and not
\* committed, and that run's insertion then failed
C7_Witness ==
    seen.staging \cap aborted # {}

\* C9: a run of ingest_path on a file that is already in the store, and
\* unchanged, inserts no chunk record and returns 0.
C9_IdempotentIngest ==
    \A p \in Processes :
        ing[p].had =>
            /\ ing[p].staged = {}
            /\ \A r \in store : RunOf(r.id) # ing[p].run
            /\ ing[p].pc = "idle" => ing[p].ret = 0

\* a run entered on the ingested file has returned, and the store holds the
\* file's chunks once
C9_Witness ==
    \E p \in Processes :
        /\ ing[p].had
        /\ ing[p].pc = "idle"
        /\ ing[p].ret = 0
        /\ Cardinality({r \in store : r.source_file = WatchedFile}) = NChunks

\* C10: the watcher, the periodic checker and the startup auto-ingest never
\* leave a source with a chunk record inserted twice.
C10_NoDuplicateChunks ==
    \A r1 \in store, r2 \in store :
        (r1.source_file = r2.source_file /\ r1.chunk_index = r2.chunk_index)
            => r1 = r2

----------------------------------------------------------------------------
(* Runs of ingest_path_incremental on a file that is in the store, while    *)
(* the file is being edited                                                 *)

InitIncremental ==
    /\ exercised = "response"
    /\ now = 0
    /\ CachesEmpty
    /\ ret = NoCall
    /\ store = {ChunkRow(0, WatchedFile, i, 1) : i \in ChunkIndexes}
    /\ qw = [w \in Workers |-> IdleWorker]
    /\ del = IdleDeleter
    /\ disk = [f \in Sources |-> IF f = WatchedFile THEN 1 ELSE 0]
    /\ ing = [p \in Processes |-> IdleIngester]
    /\ processing_files = {}
    /\ runs = 0
    /\ aborted = {}
    /\ seen = NoRows
    /\ dir = IdleDir
    /\ wait = IdleWait

\* the file is saved with new content: a newer mtime
ModifyFile ==
    /\ disk[WatchedFile] > 0
    /\ disk[WatchedFile] < MaxMtime
    /\ disk' = [disk EXCEPT ![WatchedFile] = disk[WatchedFile] + 1]
    /\ UNCHANGED <<queryVars, store, ing, processing_files, runs, aborted,
                   seen>>

\* existing_files: for every source of the store that is on disk, the mtime
\* the file has now
ExistingMtimes(rows, files) ==
    [f \in {g \in ExistingFiles(rows) : files[g] > 0} |-> files[f]]

\* the store holds chunks of the file that are older than the file
StoreIsStale ==
    /\ disk[WatchedFile] > 0
    /\ \E r \in store :
          r.source_file = WatchedFile /\ r.version < disk[WatchedFile]

\* ingest_path_incremental up to the end of the scan of the store's sources
IncrementalScan ==
    /\ ing["incremental"].pc = "idle"
    /\ runs < MaxRuns
    /\ ing' = [ing EXCEPT !["incremental"] =
                  [StartRun("stat") EXCEPT
                       !.existing = ExistingMtimes(store, disk),
                       !.stale = StoreIsStale,
                       !.target = disk[WatchedFile]]]
    /\ runs' = runs + 1
    /\ UNCHANGED <<queryVars, store, disk, processing_files, aborted, seen>>

\* the file's turn in the loop: it is skipped when the mtime recorded for it
\* is not older than its mtime now; else its old chunks are deleted first
IncrementalStat ==
    LET p == "incremental"
        existing_files == ing[p].existing
        current_mtime == disk[WatchedFile]
    IN /\ ing[p].pc = "stat"
       /\ IF disk[WatchedFile] = 0
          THEN ing' = [ing EXCEPT ![p] = FinishRun(p, 0, FALSE)]
          ELSE IF /\ WatchedFile \in DOMAIN existing_files
                  /\ existing_files[WatchedFile] >= current_mtime
          THEN ing' = [ing EXCEPT ![p] = FinishRun(p, 0, FALSE)]
          ELSE ing' = [ing EXCEPT ![p].pc =
                          IF WatchedFile \in DOMAIN existing_files
                          THEN "delete" ELSE "read"]
       /\ UNCHANGED <<queryVars, store, disk, processing_files, runs,
                      aborted, seen>>

\* dao.delete_documents_by_source of the file's old chunks; a database error
\* ends the run
IncrementalDelete(ok) ==
    LET p == "incremental"
    IN /\ ing[p].pc = "delete"
       /\ IF ok
          THEN /\ store' = DeleteBySource(store, WatchedFile)
               /\ ing' = [ing EXCEPT ![p].pc = "read"]
          ELSE /\ store' = store
               /\ ing' = [ing EXCEPT ![p] = FinishRun(p, 0, TRUE)]
       /\ UNCHANGED <<queryVars, disk, processing_files, runs, aborted,
                      seen>>

NextIncremental ==
    \/ ModifyFile
    \/ IncrementalScan
    \/ IncrementalStat
    \/ \E ok \in BOOLEAN : IncrementalDelete(ok)
    \/ \E ok \in BOOLEAN : ReadAndChunk("incremental", ok)
    \/ \E ok \in BOOLEAN : EmbedBatches("incremental", ok)
    \/ \E ok \in BOOLEAN : InsertRow("incremental", ok)
    \/ Commit("incremental")
    \/ ReaderSearch

SpecIncremental == InitIncremental /\ [][NextIncremental]_vars

\* C8: when ingest_path_incremental is run on a file whose chunks in the
\* store are older than the file, and the run meets no failure, the store
\* afterwards holds no older chunk of the file and holds chunks of the new
\* content.
C8_IncrementalReingests ==
    LET p == ing["incremental"]
        rows == {r \in store : r.source_file = WatchedFile}
    IN (p.pc = "idle" /\ p.run > 0 /\ p.stale /\ ~p.failed) =>
           /\ rows # {}
           /\ \A r \in rows : r.version >= p.target

----------------------------------------------------------------------------
(* The file watcher alone: the observer thread handles the create and the   *)
(* delete events of the watched file, Timer threads run the retries         *)

\* the file is removed from the watched directory
RemoveFile ==
    /\ disk[WatchedFile] > 0
    /\ disk' = [disk EXCEPT ![WatchedFile] = 0]
    /\ UNCHANGED <<queryVars, store, ing, processing_files, runs, aborted,
                   seen>>

\* on_deleted -> _handle_file_deletion, up to the store deletion; a deletion
\* that raises is logged and ends the handler
OnDeleted(ok) ==
    /\ ing["watcher"].pc = "idle"
    /\ del.pc = "idle"
    /\ disk[WatchedFile] = 0
    /\ WatchedFile \notin del.committed
    /\ IF ok
       THEN /\ store' = DeleteBySource(store, WatchedFile)
            /\ del' = [del EXCEPT !.pc = "response",
                                  !.source_file = WatchedFile,
                                  !.committed = del.committed
                                                    \cup {WatchedFile}]
       ELSE UNCHANGED <<store, del>>
    /\ UNCHANGED <<ingestVars, exercised, now, ret, cacheVars, qw>>

NextWatcher ==
    \/ OnCreated
    \/ Retry
    \/ \E p \in WatcherThreads, ready \in BOOLEAN : WaitForFileReady(p, ready)
    \/ \E p \in WatcherThreads, ok \in BOOLEAN : AlreadyIngested(p, ok)
    \/ \E p \in WatcherThreads : IngestCheck(p)
    \/ \E p \in WatcherThreads, ok \in BOOLEAN : ReadAndChunk(p, ok)
    \/ \E p \in WatcherThreads, ok \in BOOLEAN : EmbedBatches(p, ok)
    \/ \E p \in WatcherThreads, ok \in BOOLEAN : InsertRow(p, ok)
    \/ \E p \in WatcherThreads : Commit(p)
    \/ RemoveFile
    \/ \E ok \in BOOLEAN : OnDeleted(ok)
    \/ InvalidateResponseCache
    \/ InvalidateQueryCache

SpecWatcher == InitIngest /\ [][NextWatcher]_vars

\* the executions of the body of _process_file on the watched file that
\* are in progress, and the retries that wait on their Timer
InFlight == {p \in WatcherThreads : ing[p].pc # "idle"}

\* C11: at most one execution of the ingestion body of _process_file, first
\* attempt or scheduled retry, is in progress or pending for a path at any
\* time, the path is in processing_files for as long as it is, and a create
\* event for a path in processing_files starts no second ingestion.
C11_WatcherDeduplicates ==
    /\ Cardinality(InFlight) <= 1
    /\ InFlight # {} => WatchedFile \in processing_files

\* a retry is pending or running on its Timer thread while the observer
\* thread is free to take the next create event of the file
C11_Witness ==
    /\ ing["timer"].pc # "idle"
    /\ ing["watcher"].pc = "idle"
    /\ ing["watcher"].retried
    /\ disk[WatchedFile] > 0
    /\ runs < MaxRuns
\* C12: an attempt of the watcher on a file that fails, a failure of the
\* extraction, the embedding or the insertion inside ingest_path included,
\* is retried after min(max_delay, initial_delay * 2^attempt) seconds while
\* fewer than max_retries retries were made; the last failed attempt
\* schedules no retry and logs the file at error level.
C12_BoundedRetry ==
    \A p \in WatcherThreads :
        /\ ing[p].attempt <= MaxRetries
        /\ ing[p].pc = "scheduled" =>
               ing[p].delay =
                   Min(MaxDelay, InitialDelay * Pow2(ing[p].attempt - 1))
        /\ (ing[p].pc = "idle" /\ ing[p].failed) =>
               IF ing[p].attempt < MaxRetries
               THEN ing[p].retried
               ELSE ing[p].reported /\ ~ing[p].retried

\* C20: once the delete event of a file has been handled and the ingestion
\* of the file that was in progress or waiting for its retry has finished,
\* the store holds no chunk of the file.
C20_DeletionWins ==
    (WatchedFile \in del.done /\ InFlight = {}) =>
        \A r \in store : r.source_file # WatchedFile

\* a thread that has begun a step of _process_file takes it to its end, and
\* a Timer that was started fires
WatcherFairness ==
    /\ WF_ing(Retry)
    /\ \A p \in WatcherThreads :
          /\ WF_ing(\E ready \in BOOLEAN : WaitForFileReady(p, ready))
          /\ WF_ing(\E ok \in BOOLEAN : AlreadyIngested(p, ok))
          /\ WF_ing(IngestCheck(p))
          /\ WF_ing(\E ok \in BOOLEAN : ReadAndChunk(p, ok))
          /\ WF_ing(\E ok \in BOOLEAN : EmbedBatches(p, ok))
          /\ WF_ing(\E ok \in BOOLEAN : InsertRow(p, ok))
          /\ WF_ing(Commit(p))

SpecWatcherFair == InitIngest /\ [][NextWatcher]_vars /\ WatcherFairness

\* an attempt of thread p ends in this step
AttemptEnds(p) ==
    /\ ing[p].pc \notin {"idle", "scheduled"}
    /\ ing'[p].pc \in {"idle", "scheduled"}

\* C28: a path added to processing_files is eventually removed when the
\* retry timers fire; it is in the set exactly while an attempt on it runs
\* or a retry is pending; the end of an attempt removes it unless the
\* attempt has scheduled a retry, which happens only while attempts are
\* left; and a create event that comes after that starts a new attempt.
C28_InFlightRelease ==
    /\ [](WatchedFile \in processing_files <=> InFlight # {})
    /\ [][\A p \in WatcherThreads :
             AttemptEnds(p) =>
                 /\ (WatchedFile \in processing_files') <=>
                        ing'["timer"].pc = "scheduled"
                 /\ ing'["timer"].pc = "scheduled" =>
                        /\ ing[p].attempt < MaxRetries
                        /\ ing'["timer"].attempt = ing[p].attempt + 1
          ]_vars
    /\ [][(ing["watcher"].pc = "idle" /\ ing'["watcher"].pc # "idle") =>
             WatchedFile \notin processing_files]_vars
    /\ (WatchedFile \in processing_files) ~>
           (WatchedFile \notin processing_files)

\* C28 witness: the last allowed attempt has failed on its Timer thread and
\* released the file, and a later create event of the file is being
\* processed
C28_Witness ==
    /\ ing["timer"].pc = "idle"
    /\ ing["timer"].attempt = MaxRetries
    /\ ing["timer"].reported
    /\ ing["watcher"].pc \notin {"idle", "scheduled"}
    /\ ing["watcher"].run > ing["timer"].run
    /\ WatchedFile \in processing_files
----------------------------------------------------------------------------
(* ingest_path and ingest_path_incremental over a directory of two files,   *)
(* one file of the loop at a time                                           *)

DirFiles == {SrcA, SrcB}

\* the orders os.walk can yield the files of the directory in
Orders(files) ==
    {o \in [1..Cardinality(files) -> files] :
        \A i, j \in DOMAIN o : o[i] = o[j] => i = j}

\* what can go wrong with one file: the read of the store's sources or the
\* stat of the file, the deletion of the old chunks, the extraction, the
\* embedding of a batch, the insertion
Outcomes == {"ok", "count", "delete", "read", "embed", "insert"}

\* the rows insert_documents_batch commits for one file
FileRows(run, source_file, version) ==
    {ChunkRow(run, source_file, i, version) : i \in ChunkIndexes}

\* mutant of ContinueLoop: the failure of a file ends the loop
AbortLoop(todo) == <<>>

\* except Exception: logger.error(..); continue
ContinueLoop(todo) == Tail(todo)

InitDirectory ==
    /\ exercised = "response"
    /\ now = 0
    /\ CachesEmpty
    /\ ret = NoCall
    /\ store \in {{}, FileRows(0, SrcA, 1)}
    /\ qw = [w \in Workers |-> IdleWorker]
    /\ del = IdleDeleter
    /\ disk = [f \in Sources |-> IF f \in DirFiles THEN 1 ELSE 0]
    /\ ing = [p \in Processes |-> IdleIngester]
    /\ processing_files = {}
    /\ runs = 0
    /\ aborted = {}
    /\ seen = NoRows
    /\ dir = IdleDir
    /\ wait = IdleWait

\* ingest_path(path) up to the loop over find_files(path)
StartIngestPath(order) ==
    /\ dir.pc = "idle"
    /\ runs + Len(order) <= MaxRuns
    /\ dir' = [IdleDir EXCEPT !.pc = "loop", !.mode = "full",
                              !.todo = order, !.order = order,
                              !.first = runs]
    /\ UNCHANGED <<exercised, now, cacheVars, ret, qw, del, store, disk, ing,
                   processing_files, runs, aborted, seen, wait>>

\* ingest_path_incremental(path) up to the loop: the scan of the store's
\* sources
StartIncremental(order) ==
    /\ dir.pc = "idle"
    /\ runs + Len(order) <= MaxRuns
    /\ dir' = [IdleDir EXCEPT !.pc = "loop", !.mode = "incremental",
                              !.existing = ExistingMtimes(store, disk),
                              !.todo = order, !.order = order,
                              !.first = runs]
    /\ UNCHANGED <<exercised, now, cacheVars, ret, qw, del, store, disk, ing,
                   processing_files, runs, aborted, seen, wait>>

\* the file of the loop was skipped
Skipped(f) ==
    [dir EXCEPT !.todo = Tail(dir.todo), !.skipped = dir.skipped \cup {f}]

\* the file of the loop raised: nothing is added to total_chunks
Failed(f) ==
    [dir EXCEPT !.todo = ContinueLoop(dir.todo), !.bad = dir.bad \cup {f}]

\* the file of the loop was inserted
Inserted(f) ==
    [dir EXCEPT !.todo = Tail(dir.todo), !.ok = dir.ok \cup {f},
                !.total_chunks = dir.total_chunks + NChunks]

\* one turn of the loop of ingest_path
IngestFile(outcome) ==
    LET f == Head(dir.todo)
    IN /\ dir.pc = "loop"
       /\ dir.mode = "full"
       /\ dir.todo # <<>>
       /\ outcome # "delete"
       /\ IF outcome = "count"
          THEN /\ dir' = Failed(f)
               /\ UNCHANGED <<store, runs>>
          ELSE IF f \in ExistingFiles(store)
          THEN /\ dir' = Skipped(f)
               /\ UNCHANGED <<store, runs>>
          ELSE IF outcome # "ok" \/ disk[f] = 0
          THEN /\ dir' = Failed(f)
               /\ UNCHANGED <<store, runs>>
          ELSE /\ dir' = Inserted(f)
               /\ store' = store \cup FileRows(runs + 1, f, disk[f])
               /\ runs' = runs + 1
       /\ UNCHANGED <<exercised, now, cacheVars, ret, qw, del, disk, ing,
                      processing_files, aborted, seen, wait>>

\* one turn of the loop of ingest_path_incremental
IncrementalFile(outcome) ==
    LET f == Head(dir.todo)
        known == f \in DOMAIN dir.existing
        kept == IF known THEN DeleteBySource(store, f) ELSE store
    IN /\ dir.pc = "loop"
       /\ dir.mode = "incremental"
       /\ dir.todo # <<>>
       /\ IF outcome = "count" \/ disk[f] = 0
          THEN /\ dir' = Failed(f)
               /\ UNCHANGED <<store, runs>>
          ELSE IF known /\ dir.existing[f] >= disk[f]
          THEN /\ dir' = Skipped(f)
               /\ UNCHANGED <<store, runs>>
          ELSE IF known /\ outcome = "delete"
          THEN /\ dir' = Failed(f)
               /\ UNCHANGED <<store, runs>>
          ELSE IF outcome \in {"read", "embed", "insert"}
          THEN /\ dir' = Failed(f)
               /\ store' = kept
               /\ UNCHANGED runs
          ELSE /\ dir' = Inserted(f)
               /\ store' = kept \cup FileRows(runs + 1, f, disk[f])
               /\ runs' = runs + 1
       /\ UNCHANGED <<exercised, now, cacheVars, ret, qw, del, disk, ing,
                      processing_files, aborted, seen, wait>>

\* return total_chunks
ReturnTotal ==
    /\ dir.pc = "loop"
    /\ dir.todo = <<>>
    /\ dir' = [dir EXCEPT !.pc = "idle", !.ret = dir.total_chunks]
    /\ UNCHANGED <<exercised, now, cacheVars, ret, qw, del, store, disk, ing,
                   processing_files, runs, aborted, seen, wait>>

\* a file of the directory is saved with new content
ModifyDirFile(f) ==
    /\ disk[f] > 0
    /\ disk[f] < MaxMtime
    /\ disk' = [disk EXCEPT ![f] = disk[f] + 1]
    /\ UNCHANGED <<exercised, now, cacheVars, ret, qw, del, store, ing,
                   processing_files, runs, aborted, seen, dir, wait>>

NextDirectory ==
    \/ \E order \in Orders(DirFiles) : StartIngestPath(order)
    \/ \E order \in Orders(DirFiles) : StartIncremental(order)
    \/ \E outcome \in Outcomes : IngestFile(outcome)
    \/ \E outcome \in Outcomes : IncrementalFile(outcome)
    \/ ReturnTotal
    \/ \E f \in DirFiles : ModifyDirFile(f)

SpecDirectory == InitDirectory /\ [][NextDirectory]_vars

\* the rows the store holds of the file ingestions of the current run
RowsOfRun == {r \in store : RunOf(r.id) > dir.first}

\* C13: when a run of ingest_path or ingest_path_incremental over a
\* directory has returned, every file of the directory was ingested, skipped
\* or met a failure, whatever failed before it; a file that met a failure has
\* no chunk of the run in the store, an ingested file has all of its chunks,
\* and the returned count is the number of chunks the run inserted.
C13_FailureIsolation ==
    (dir.pc = "idle" /\ dir.ret >= 0) =>
        /\ dir.ok \cup dir.bad \cup dir.skipped = DirFiles
        /\ \A f \in dir.bad :
              \A r \in RowsOfRun : r.source_file # f
        /\ \A f \in dir.ok :
              {r.chunk_index : r \in {q \in RowsOfRun : q.source_file = f}}
                  = ChunkIndexes
        /\ dir.ret = Cardinality(RowsOfRun)

\* a run has returned in which the first file met a failure and the second
\* file was ingested
C13_Witness ==
    /\ dir.pc = "idle"
    /\ dir.ret = NChunks
    /\ dir.order[1] \in dir.bad
    /\ dir.order[2] \in dir.ok
----------------------------------------------------------------------------
(* query_rewriter.merge_search_results, a pure function of its argument *)

MaxLists == 2

MergeIds == {1, 2}
MergeScores == {1, 2}
ResultLens == 0..2

\* a DocumentResult as merge_search_results reads it: its id and its score
\* (a distance: lower is better)
ScoredResult(id, score) == [id |-> id, score |-> score]

ScoredResults == {ScoredResult(i, sc) : i \in MergeIds, sc \in MergeScores}

ResultLists == UNION {[1..n -> ScoredResults] : n \in ResultLens}

ResultsLists == UNION {[1..n -> ResultLists] : n \in 0..MaxLists}

\* the loop body: an id seen for the first time is added at the end of the
\* dict, a lower score replaces the value the dict holds under the id and
\* leaves the id where it is
MergeItem(merged, item) ==
    IF \E i \in DOMAIN merged : merged[i].id = item.id
    THEN [i \in DOMAIN merged |->
             IF merged[i].id = item.id /\ item.score < merged[i].score
             THEN item
             ELSE merged[i]]
    ELSE Append(merged, item)

RECURSIVE MergeResults(_, _)
MergeResults(merged, results) ==
    IF results = <<>>
    THEN merged
    ELSE MergeResults(MergeItem(merged, Head(results)), Tail(results))

RECURSIVE MergeLists(_, _)
MergeLists(merged, results_list) ==
    IF results_list = <<>>
    THEN merged
    ELSE MergeLists(MergeResults(merged, Head(results_list)),
                    Tail(results_list))

\* one step of list.sort(key=lambda x: x.score), which is stable: the item
\* goes behind every item whose score is not higher
InsertByScore(sorted, item) ==
    LET before == {i \in DOMAIN sorted : sorted[i].score <= item.score}
        n == Cardinality(before)
    IN SubSeq(sorted, 1, n) \o <<item>> \o SubSeq(sorted, n + 1, Len(sorted))

RECURSIVE SortByScore(_, _)
SortByScore(sorted, items) ==
    IF items = <<>>
    THEN sorted
    ELSE SortByScore(InsertByScore(sorted, Head(items)), Tail(items))

MergeSearchResults(results_list) ==
    SortByScore(<<>>, MergeLists(<<>>, results_list))

InitMerge ==
    /\ exercised = "response"
    /\ now = 0
    /\ CachesEmpty
    /\ PipelineIdle
    /\ ret \in {Call("argument", None, results_list, None, None, None, 0) :
                   results_list \in ResultsLists}

\* merged = merge_search_results(results_list)
Merge ==
    /\ ret.op = "argument"
    /\ ret' = Call("merge_search_results", None, ret.key, None,
                   MergeSearchResults(ret.key), None, 0)
    /\ UNCHANGED <<exercised, now, cacheVars, pipelineVars>>

\* the caller passes the same lists in another order
Reorder ==
    /\ ret.op = "merge_search_results"
    /\ Len(ret.key) = 2
    /\ ret.key[1] # ret.key[2]
    /\ ret' = Call("argument", None, <<ret.key[2], ret.key[1]>>, None, None,
                   None, 0)
    /\ UNCHANGED <<exercised, now, cacheVars, pipelineVars>>

NextMerge ==
    \/ Merge
    \/ Reorder

SpecMerge == InitMerge /\ [][NextMerge]_vars

\* the items of all the lists
ItemsOf(results_list) ==
    UNION {{results_list[l][i] : i \in DOMAIN results_list[l]} :
               l \in DOMAIN results_list}

\* the ids of a merged list, in its order
Ranking(merged) == [i \in DOMAIN merged |-> merged[i].id]

\* the same lists in every order
Reorderings(results_list) ==
    {[i \in DOMAIN results_list |-> results_list[o[i]]] :
        o \in {q \in [DOMAIN results_list -> DOMAIN results_list] :
                  \A i, j \in DOMAIN results_list : q[i] = q[j] => i = j}}

\* C14: merge_search_results returns every id of its lists once, with the
\* lowest score the id has in any list, in ascending order of score, and
\* the ranking is the same in whatever order the lists are passed, ties
\* included.
C14_MergeOrderIndependent ==
    ret.op = "merge_search_results" =>
        LET merged == ret.value
            items == ItemsOf(ret.key)
        IN /\ {merged[i].id : i \in DOMAIN merged} = {x.id : x \in items}
           /\ \A i, j \in DOMAIN merged :
                 merged[i].id = merged[j].id => i = j
           /\ \A i \in DOMAIN merged :
                 /\ merged[i] \in items
                 /\ \A x \in items :
                       x.id = merged[i].id => merged[i].score <= x.score
           /\ \A i, j \in DOMAIN merged :
                 i < j => merged[i].score <= merged[j].score
           /\ \A other \in Reorderings(ret.key) :
                 Ranking(MergeSearchResults(other)) = Ranking(merged)
----------------------------------------------------------------------------
(* RAGService._determine_optimal_strategy, a pure function of the query *)

MaxWords == 3

\* the words the sample queries are made of: one of each keyword list, a
\* word of no list, a capitalised word that holds the keyword "test", and
\* a quoted word
Vocabulary ==
    {<<"h", "c", "b", "s">>,
     <<"p", "o", "l", "i", "c", "y">>,
     <<"d", "r", "u", "g">>,
     <<"c", "r", "i", "t", "e", "r", "i", "a">>,
     <<"c", "a", "r", "e">>,
     <<"L", "a", "t", "e", "s", "t">>,
     <<"\"", "a", "\"">>}

RECURSIVE Join(_)
Join(words) ==
    IF Len(words) = 1
    THEN words[1]
    ELSE words[1] \o <<" ">> \o Join(Tail(words))

SampleQueries ==
    {Join(words) : words \in UNION {[1..n -> Vocabulary] : n \in 1..MaxWords}}

InitStrategy ==
    /\ exercised = "response"
    /\ now = 0
    /\ CachesEmpty
    /\ PipelineIdle
    /\ ret \in {Call("argument", None, query, None, None, None, 0) :
                   query \in SampleQueries}

\* strategy = self._determine_optimal_strategy(query), called for the same
\* query any number of times, under either value of enable_fast_mode
SelectStrategy(enable_fast_mode) ==
    /\ ret' = Call("_determine_optimal_strategy", None, ret.key, None,
                   StrategyFor(ret.key, enable_fast_mode), None, 0)
    /\ UNCHANGED <<exercised, now, cacheVars, pipelineVars>>

NextStrategy == \E enable_fast_mode \in BOOLEAN : SelectStrategy(enable_fast_mode)

SpecStrategy == InitStrategy /\ [][NextStrategy]_vars

\* C17 as stated: the chosen strategy is that of the first matching rule of
\* domain keyword -> enhanced, policy or procedure vocabulary -> combined,
\* at most 2 words or a quoted phrase -> keyword, otherwise semantic, for
\* every query, whichever of the keyword lists that lead to enhanced are
\* taken as the domain keywords beside the HCBS and the CCBHC list.
C17_ClaimedRuleOrder ==
    LET Claimed(domain, query) ==
            IF \E keywords \in domain : AnyIn(keywords, Lower(query))
            THEN "enhanced"
            ELSE IF AnyIn(PolicyKeywords, Lower(query)) THEN "combined"
            ELSE IF WordCount(query) <= 2 \/ Quoted(query) THEN "keyword"
            ELSE "semantic"
        readings == {{HcbsKeywords, CcbhcKeywords} \cup more :
                        more \in SUBSET {DrugKeywords, ComplexKeywords}}
    IN ret.op = "_determine_optimal_strategy" =>
           \E domain \in readings :
               \A query \in SampleQueries :
                   StrategyFor(query, TRUE) = Claimed(domain, query)

\* C17, amended: the chosen strategy is a function of the query string alone
\* and is that of the first matching rule of: HCBS or CCBHC keyword ->
\* enhanced, policy or procedure vocabulary -> combined, drug keyword ->
\* enhanced, at most 2 words or a quote character -> keyword, keyword of a
\* complex query -> enhanced, otherwise semantic.
C17_FirstMatchWins ==
    ret.op = "_determine_optimal_strategy" =>
        LET q == Lower(ret.key)
            domain == AnyIn(HcbsKeywords, q) \/ AnyIn(CcbhcKeywords, q)
            policy == AnyIn(PolicyKeywords, q)
            drug == AnyIn(DrugKeywords, q)
            short == WordCount(ret.key) <= 2 \/ Quoted(ret.key)
            complex == AnyIn(ComplexKeywords, q)
        IN /\ \A enable_fast_mode \in BOOLEAN :
                 ret.value = StrategyFor(ret.key, enable_fast_mode)
           /\ domain => ret.value = "enhanced"
           /\ (~domain /\ policy) => ret.value = "combined"
           /\ (~domain /\ ~policy /\ drug) => ret.value = "enhanced"
           /\ (~domain /\ ~policy /\ ~drug /\ short) => ret.value = "keyword"
           /\ (~domain /\ ~policy /\ ~drug /\ ~short /\ complex) =>
                 ret.value = "enhanced"
           /\ (~domain /\ ~policy /\ ~drug /\ ~short /\ ~complex) =>
                 ret.value = "semantic"

\* the strategy of a query that holds a policy keyword and a drug keyword
\* has been chosen
C17_Witness ==
    /\ ret.op = "_determine_optimal_strategy"
    /\ AnyIn(PolicyKeywords, Lower(ret.key))
    /\ AnyIn(DrugKeywords, Lower(ret.key))
    /\ ~AnyIn(HcbsKeywords, Lower(ret.key))
    /\ ret.value = "combined"

----------------------------------------------------------------------------
(* ingest_files.chunk_text, a pure function of the text, the chunk size and *)
(* the overlap                                                              *)

MaxText == 4
MaxChunkSize == 3
MaxOverlap == 2

\* the characters of the sample texts: two letters, a blank, a line feed and
\* a carriage return
Alphabet == {"a", "b", " ", "\n", "\r"}

Whitespace == {" ", "\n", "\r", "\t"}

SampleTexts == UNION {[1..n -> Alphabet] : n \in 0..MaxText}

\* text.replace('\r\n', '\n').replace('\r', '\n')
RECURSIVE NormaliseNewlines(_)
NormaliseNewlines(text) ==
    IF text = <<>>
    THEN <<>>
    ELSE IF Len(text) >= 2 /\ text[1] = "\r" /\ text[2] = "\n"
    THEN <<"\n">> \o NormaliseNewlines(SubSeq(text, 3, Len(text)))
    ELSE IF text[1] = "\r"
    THEN <<"\n">> \o NormaliseNewlines(Tail(text))
    ELSE <<text[1]>> \o NormaliseNewlines(Tail(text))

\* str.strip()
Strip(text) ==
    LET kept == {i \in DOMAIN text : text[i] \notin Whitespace}
    IN IF kept = {}
       THEN <<>>
       ELSE SubSeq(text,
                   CHOOSE i \in kept : \A j \in kept : i <= j,
                   CHOOSE i \in kept : \A j \in kept : j <= i)

\* text[start:end] for 0 <= start
Slice(text, start, end) ==
    SubSeq(text, start + 1, IF end < Len(text) THEN end ELSE Len(text))

\* str.split(separator) for a separator that is not empty
RECURSIVE Split(_, _)
Split(text, separator) ==
    LET n == Len(separator)
        at == {i \in 1..(Len(text) - n + 1) :
                  SubSeq(text, i, i + n - 1) = separator}
    IN IF at = {}
       THEN <<text>>
       ELSE LET first == CHOOSE i \in at : \A j \in at : i <= j
            IN <<SubSeq(text, 1, first - 1)>>
                   \o Split(SubSeq(text, first + n, Len(text)), separator)

\* separators = ["\n\n", "\n", " ", ""]
Separators == <<<<"\n", "\n">>, <<"\n">>, <<" ">>, <<>>>>

\* a (chunk, start_pos, end_pos) tuple
ChunkAt(chunk, start) ==
    [chunk |-> chunk, start |-> start, end |-> start + Len(chunk)]

\* the separator "": the text is cut every chunk_size characters, from its
\* j-th character on
RECURSIVE SplitCharacters(_, _, _, _)
SplitCharacters(text_to_split, current_pos, j, chunk_size) ==
    IF j >= Len(text_to_split)
    THEN <<>>
    ELSE LET chunk == Strip(Slice(text_to_split, j, j + chunk_size))
             rest == SplitCharacters(text_to_split, current_pos,
                                     j + chunk_size, chunk_size)
         IN IF chunk # <<>>
            THEN <<ChunkAt(chunk, current_pos + j)>> \o rest
            ELSE rest

\* segment = split + separator, except for the last split
Segments(splits, separator) ==
    [j \in DOMAIN splits |->
        IF j < Len(splits) THEN splits[j] \o separator ELSE splits[j]]

\* the chunk being built is saved if it has content, and current_pos moves
\* to its end
SaveChunk(state) ==
    LET chunk == Strip(state.current_chunk)
    IN IF chunk # <<>>
       THEN [state EXCEPT
                !.result = Append(state.result,
                                  ChunkAt(chunk, state.current_pos)),
                !.current_pos = state.current_pos + Len(chunk)]
       ELSE state

RECURSIVE SplitRecursive(_, _, _, _)
RECURSIVE BuildChunks(_, _, _, _)

\* the loop over the splits of one separator, from the state reached so far
BuildChunks(segments, state, remaining_separators, chunk_size) ==
    IF segments = <<>>
    THEN SaveChunk(state).result
    ELSE LET segment == Head(segments)
             saved == SaveChunk(state)
             inner == SplitRecursive(segment, saved.current_pos,
                                     remaining_separators, chunk_size)
             result == saved.result \o inner
             next ==
                 IF Len(state.current_chunk) + Len(segment) <= chunk_size
                 THEN [state EXCEPT
                          !.current_chunk = state.current_chunk \o segment]
                 ELSE IF Len(segment) > chunk_size
                 THEN [result |-> result,
                       current_chunk |-> <<>>,
                       current_pos |-> IF result # <<>>
                                       THEN result[Len(result)].end
                                       ELSE saved.current_pos]
                 ELSE [saved EXCEPT !.current_chunk = segment]
         IN BuildChunks(Tail(segments), next, remaining_separators,
                        chunk_size)

\* _split_recursive: the (chunk, start_pos, end_pos) tuples of a text; the
\* last separator is always "", so the loop never falls through
SplitRecursive(text_to_split, start_offset, separators_list, chunk_size) ==
    IF Strip(text_to_split) = <<>>
    THEN <<>>
    ELSE IF Len(text_to_split) <= chunk_size
    THEN <<ChunkAt(Strip(text_to_split), start_offset)>>
    ELSE LET separator == Head(separators_list)
             splits == Split(text_to_split, separator)
             result ==
                 BuildChunks(Segments(splits, separator),
                             [result |-> <<>>, current_chunk |-> <<>>,
                              current_pos |-> start_offset],
                             Tail(separators_list), chunk_size)
         IN IF separator = <<>>
            THEN SplitCharacters(text_to_split, start_offset, 0, chunk_size)
            ELSE IF Len(splits) > 1 /\ result # <<>>
            THEN result
            ELSE SplitRecursive(text_to_split, start_offset,
                                Tail(separators_list), chunk_size)

\* prev_chunk[-overlap:] if len(prev_chunk) >= overlap else prev_chunk
OverlapText(prev_chunk, overlap) ==
    IF Len(prev_chunk) >= overlap
    THEN SubSeq(prev_chunk, Len(prev_chunk) - overlap + 1, Len(prev_chunk))
    ELSE prev_chunk

\* mutant of NewStart: the start moves back by the overlap asked for
NewStartByOverlap(start, overlap_text, overlap) == start - overlap

\* new_start = start - len(overlap_text)
NewStart(start, overlap_text, overlap) == start - Len(overlap_text)

\* the overlap pass over the chunks
ApplyOverlap(chunk_data, overlap) ==
    IF overlap > 0 /\ Len(chunk_data) > 1
    THEN [i \in DOMAIN chunk_data |->
             IF i = 1
             THEN chunk_data[i]
             ELSE LET overlap_text ==
                          OverlapText(chunk_data[i - 1].chunk, overlap)
                  IN [chunk |-> overlap_text \o chunk_data[i].chunk,
                      start |-> NewStart(chunk_data[i].start, overlap_text,
                                         overlap),
                      end |-> chunk_data[i].end]]
    ELSE chunk_data

\* chunk_text: the chunks with their ChunkMetadata
ChunkText(text, chunk_size, overlap) ==
    LET chunk_data ==
            ApplyOverlap(SplitRecursive(NormaliseNewlines(text), 0,
                                        Separators, chunk_size),
                         overlap)
    IN [i \in DOMAIN chunk_data |->
           [chunk_text |-> chunk_data[i].chunk,
            chunk_index |-> i - 1,
            start_position |-> chunk_data[i].start,
            end_position |-> chunk_data[i].end]]

InitChunk ==
    /\ exercised = "response"
    /\ now = 0
    /\ CachesEmpty
    /\ PipelineIdle
    /\ ret \in {Call("argument", None,
                     [text |-> text, chunk_size |-> chunk_size,
                      overlap |-> overlap],
                     None, None, None, 0) :
                   text \in SampleTexts, chunk_size \in 1..MaxChunkSize,
                   overlap \in 0..MaxOverlap}

\* chunks_with_metadata = chunk_text(text, chunk_size, overlap)
Chunk ==
    /\ ret.op = "argument"
    /\ ret' = Call("chunk_text", None, ret.key, None,
                   ChunkText(ret.key.text, ret.key.chunk_size,
                             ret.key.overlap),
                   None, 0)
    /\ UNCHANGED <<exercised, now, cacheVars, pipelineVars>>

NextChunk == Chunk

SpecChunk == InitChunk /\ [][NextChunk]_vars

\* C18: with overlap = 0, every chunk chunk_text returns is the stripped
\* slice of the newline-normalised text between its start_position and its
\* end_position.
C18_OffsetFidelity ==
    (ret.op = "chunk_text" /\ ret.key.overlap = 0) =>
        LET text == NormaliseNewlines(ret.key.text)
        IN \A i \in DOMAIN ret.value :
               Strip(Slice(text, ret.value[i].start_position,
                           ret.value[i].end_position))
                   = ret.value[i].chunk_text

\* C19: the chunks of a text have the chunk_index values 0..N-1 in order,
\* every chunk has 0 <= start_position < end_position <= len(text), and
\* start_position and end_position do not decrease as chunk_index grows.
C19_ChunkMetadata ==
    ret.op = "chunk_text" =>
        LET text == NormaliseNewlines(ret.key.text)
            chunks == ret.value
        IN /\ \A i \in DOMAIN chunks :
                 /\ chunks[i].chunk_index = i - 1
                 /\ 0 <= chunks[i].start_position
                 /\ chunks[i].start_position < chunks[i].end_position
                 /\ chunks[i].end_position <= Len(text)
           /\ \A i, j \in DOMAIN chunks :
                 i < j =>
                     /\ chunks[i].start_position <= chunks[j].start_position
                     /\ chunks[i].end_position <= chunks[j].end_position

\* a text was cut into several chunks with an overlap that is longer than
\* the chunk before
C19_Witness ==
    /\ ret.op = "chunk_text"
    /\ Len(ret.value) >= 2
    /\ ret.key.overlap > 0
    /\ \E i \in DOMAIN ret.value :
          /\ i > 1
          /\ Len(ret.value[i - 1].chunk_text) < ret.key.overlap

----------------------------------------------------------------------------
(* _wait_for_file_ready, called by the watcher and by the periodic checker  *)
(* on a file that is being written                                          *)

\* the last tick of the clock while a file is waited for
MaxClock == 5
\* settings.auto_ingest_file_ready_timeout, in ticks
ReadyTimeout == 3
\* the values of settings.auto_ingest_file_ready_stability_checks
StabilitySettings == 0..3
\* the sizes of the file
FileSizes == 1..2
\* settings.auto_ingest_file_ready_poll_interval, in ticks
PollInterval == 1

ReadyCallers == {"watcher", "checker"}

\* max(1, stability_checks)
StabilityChecks(setting) == IF setting < 1 THEN 1 ELSE setting

\* (stat.st_size, stat.st_mtime)
Fingerprint(file) ==
    [exists |-> TRUE, size |-> file.size, mtime |-> file.mtime]

\* mutant of StableCount: a changed fingerprint does not restart the count
StableCountNoRestart(fingerprint, last_fingerprint, stable_count) ==
    stable_count + 1

\* stable_count after a poll
StableCount(fingerprint, last_fingerprint, stable_count) ==
    IF fingerprint = last_fingerprint THEN stable_count + 1 ELSE 1

InitReady ==
    /\ exercised = "response"
    /\ now = 0
    /\ CachesEmpty
    /\ ret = NoCall
    /\ store = {}
    /\ qw = [w \in Workers |-> IdleWorker]
    /\ del = IdleDeleter
    /\ dir = IdleDir
    /\ disk = [f \in Sources |-> 0]
    /\ ing = [p \in Processes |-> IdleIngester]
    /\ processing_files = {}
    /\ runs = 0
    /\ aborted = {}
    /\ seen = {}
    /\ wait \in {[IdleWait EXCEPT !.stability_checks = n] :
                    n \in StabilitySettings}

ReadyUnchanged ==
    UNCHANGED <<exercised, cacheVars, ret, store, qw, del, disk, ing,
                processing_files, runs, aborted, seen, dir>>

Returned(value) == [wait EXCEPT !.pc = "returned", !.result = value]

\* the writer of the file writes it, or writes it again
WriteFile(size) ==
    LET file == [exists |-> TRUE, size |-> size, mtime |-> now]
    IN /\ file # wait.file
       /\ wait' = [wait EXCEPT !.file = file]
       /\ now' = now
       /\ ReadyUnchanged

DeleteFile ==
    /\ wait.file.exists
    /\ wait' = [wait EXCEPT !.file = Absent]
    /\ now' = now
    /\ ReadyUnchanged

\* time passes
ReadyTick ==
    /\ now < MaxClock
    /\ now' = now + 1
    /\ wait' = wait
    /\ ReadyUnchanged

\* _wait_for_file_ready up to the loop: a file that does not exist is not
\* ready
StartWait(caller) ==
    /\ wait.pc = "idle"
    /\ wait' = IF wait.file.exists
               THEN [wait EXCEPT !.pc = "test",
                                 !.caller = caller,
                                 !.deadline = now + ReadyTimeout,
                                 !.last_fingerprint = Absent,
                                 !.stable_count = 0,
                                 !.polls = <<>>,
                                 !.at = now,
                                 !.result = None,
                                 !.ingested = FALSE]
               ELSE [wait EXCEPT !.pc = "returned",
                                 !.caller = caller,
                                 !.polls = <<Absent>>,
                                 !.at = now,
                                 !.result = "False",
                                 !.ingested = FALSE]
    /\ now' = now
    /\ ReadyUnchanged

\* while time.time() < deadline
TestDeadline ==
    /\ wait.pc = "test"
    /\ wait' = IF now < wait.deadline
               THEN [wait EXCEPT !.pc = "stat", !.at = now]
               ELSE [Returned("False") EXCEPT !.at = now]
    /\ now' = now
    /\ ReadyUnchanged

\* one poll: the stat of the file, the comparison of the fingerprints and
\* the test of the count
Poll ==
    LET fingerprint == Fingerprint(wait.file)
        stable_count == StableCount(fingerprint, wait.last_fingerprint,
                                    wait.stable_count)
        polled == [wait EXCEPT !.stable_count = stable_count,
                               !.last_fingerprint = fingerprint,
                               !.polls = Append(wait.polls, fingerprint)]
    IN /\ wait.pc = "stat"
       /\ wait' = IF ~wait.file.exists
                  THEN [Returned("False") EXCEPT
                           !.polls = Append(wait.polls, Absent)]
                  ELSE IF stable_count
                             >= StabilityChecks(wait.stability_checks)
                  THEN [polled EXCEPT !.pc = "returned", !.result = "True"]
                  ELSE [polled EXCEPT !.pc = "sleep"]
       /\ now' = now
       /\ ReadyUnchanged

\* time.sleep(poll_interval)
Sleep ==
    /\ wait.pc = "sleep"
    /\ now + PollInterval <= MaxClock
    /\ now' = now + PollInterval
    /\ wait' = [wait EXCEPT !.pc = "test"]
    /\ ReadyUnchanged

\* the caller after the call: _process_file raises on a file that is not
\* ready and the checker goes on to its next file; on a file that is ready
\* both go on to the ingestion
AfterWait ==
    /\ wait.pc = "returned"
    /\ wait' = IF wait.result = "True"
               THEN [wait EXCEPT !.pc = "ingest", !.ingested = TRUE]
               ELSE [wait EXCEPT !.pc = "idle"]
    /\ now' = now
    /\ ReadyUnchanged

\* _is_file_already_ingested and ingest_path have returned
AfterIngest ==
    /\ wait.pc = "ingest"
    /\ wait' = [wait EXCEPT !.pc = "idle"]
    /\ now' = now
    /\ ReadyUnchanged

NextReady ==
    \/ \E size \in FileSizes : WriteFile(size)
    \/ DeleteFile
    \/ ReadyTick
    \/ \E caller \in ReadyCallers : StartWait(caller)
    \/ TestDeadline
    \/ Poll
    \/ Sleep
    \/ AfterWait
    \/ AfterIngest

SpecReady == InitReady /\ [][NextReady]_vars

\* the number of polls at the end of the list that saw the same fingerprint
RECURSIVE SameAtEnd(_)
SameAtEnd(polls) ==
    IF polls = <<>>
    THEN 0
    ELSE IF Len(polls) >= 2 /\ polls[Len(polls) - 1] = polls[Len(polls)]
    THEN 1 + SameAtEnd(SubSeq(polls, 1, Len(polls) - 1))
    ELSE 1

\* C22: _wait_for_file_ready returns True only after N = max(1,
\* stability_checks) consecutive polls saw the same fingerprint of the
\* file, a change of the fingerprint restarting the count; it returns False
\* when a poll finds no file or the deadline has passed; and its callers go
\* on to the ingestion only after it returned True.
C22_FileReady ==
    LET n == IF wait.stability_checks > 1 THEN wait.stability_checks ELSE 1
        missing == \E i \in DOMAIN wait.polls : wait.polls[i] = Absent
    IN /\ wait.pc \in {"sleep", "test", "stat", "returned"} =>
              (~missing => wait.stable_count = SameAtEnd(wait.polls))
       /\ wait.result = "True" =>
              /\ ~missing
              /\ SameAtEnd(wait.polls) >= n
              /\ wait.at < wait.deadline
       /\ wait.pc = "sleep" => SameAtEnd(wait.polls) < n
       /\ missing => wait.result = "False"
       /\ (wait.pc = "returned" /\ wait.at >= wait.deadline /\ ~missing) =>
              wait.result = "False"
       /\ wait.result = "False" => (missing \/ wait.at >= wait.deadline)
       /\ wait.ingested => wait.result = "True"

\* a call returned True although the file changed while it was polled
C22_Witness ==
    /\ wait.ingested
    /\ Len(wait.polls) > SameAtEnd(wait.polls)
    /\ wait.stability_checks >= 2

----------------------------------------------------------------------------
(* RAGService._apply_source_boosting, a pure function of the query, the     *)
(* documents and the source preferences the feedback gives                  *)

MaxDocs == 2

\* the keywords of the three rules
BoostHcbsKeywords == {<<"h", "c", "b", "s">>, <<"w", "a", "i", "v", "e", "r">>, <<"h", "o", "m", "e", " ", "a", "n", "d", " ", "c", "o", "m", "m", "u", "n", "i", "t", "y">>, <<"b", "h", " ", "h", "c", "b", "s">>}

BoostCcbhcKeywords == {<<"c", "c", "b", "h", "c">>, <<"q", "u", "a", "l", "i", "t", "y", " ", "m", "e", "a", "s", "u", "r", "e", "s">>, <<"c", "e", "r", "t", "i", "f", "i", "e", "d", " ", "c", "o", "m", "m", "u", "n", "i", "t", "y">>}

BoostPolicyKeywords == {<<"p", "o", "l", "i", "c", "y">>, <<"p", "r", "o", "c", "e", "d", "u", "r", "e">>, <<"m", "a", "n", "u", "a", "l">>}

BoostQueries == {<<"h", "c", "b", "s", " ", "w", "a", "i", "v", "e", "r">>, <<"c", "c", "b", "h", "c">>, <<"p", "o", "l", "i", "c", "y">>, <<"c", "a", "r", "e">>}

\* the source files of the sample documents; NoSource is a NULL source_file
BoostFiles == {<<"h", "c", "b", "s", ".", "p", "d", "f">>, <<"P", "o", "l", "i", "c", "y", ".", "p", "d", "f">>, <<"q", "u", "a", "l", "i", "t", "y", ".", "p", "d", "f">>, NoSource}

\* the scores of the sample documents, in hundredths
BoostScores == {100, 105}

\* the preference scores the feedback holds for a source, in tenths
PreferenceScores == {2, 5, 8}

\* the (doc_id, content, score, source_file) tuple
BoostDoc(id, score, source_file) ==
    [id |-> id, score |-> score, source_file |-> source_file]

\* result lists, best first
BoostLists ==
    UNION {{[i \in 1..n |-> BoostDoc(i, score[i], file[i])] :
               score \in {sc \in [1..n -> BoostScores] :
                             \A i, j \in 1..n : i < j => sc[i] <= sc[j]},
               file \in [1..n -> BoostFiles]} : n \in 0..MaxDocs}

\* what get_source_preferences_for_query gives: no preference at all when
\* the feedback is not available, or a preference score for the files
SourcePreferences ==
    {[f \in {} |-> 0]}
        \cup [BoostFiles \ {NoSource} -> PreferenceScores]

\* _get_feedback_source_boosts: the factor of a source, in thousandths
FeedbackBoosts(source_preferences) ==
    LET boosted == {f \in DOMAIN source_preferences :
                       source_preferences[f] > 7 \/ source_preferences[f] < 3}
    IN [f \in boosted |->
           IF source_preferences[f] > 7 THEN 800 ELSE 1200]

\* the factor of the filename rules for a query, in thousandths
StaticFactor(query_lower, filename) ==
    IF AnyIn(BoostHcbsKeywords, query_lower)
    THEN IF IsSubstring(<<"h", "c", "b", "s">>, filename) THEN 900
         ELSE IF IsSubstring(<<"p", "o", "l", "i", "c", "y">>, filename) THEN 1100
         ELSE 1000
    ELSE IF AnyIn(BoostCcbhcKeywords, query_lower)
    THEN IF IsSubstring(<<"c", "c", "b", "h", "c">>, filename) \/ IsSubstring(<<"q", "u", "a", "l", "i", "t", "y">>, filename)
         THEN 900
         ELSE IF IsSubstring(<<"h", "c", "b", "s">>, filename) THEN 1050
         ELSE 1000
    ELSE IF AnyIn(BoostPolicyKeywords, query_lower)
    THEN IF IsSubstring(<<"p", "o", "l", "i", "c", "y">>, filename) THEN 900
         ELSE IF IsSubstring(<<"h", "c", "b", "s">>, filename) THEN 1050
         ELSE 1000
    ELSE 1000

\* boost_factor of one document, in thousandths
BoostFactor(query, source_file, feedback_boosts) ==
    IF source_file = NoSource
    THEN 1000
    ELSE ((IF source_file \in DOMAIN feedback_boosts
           THEN feedback_boosts[source_file] ELSE 1000)
             * StaticFactor(Lower(query), Lower(source_file))) \div 1000

\* _apply_source_boosting; the scores of the result are in hundred
\* thousandths. get_dynamic_source_boosting belongs to the module
\* user_feedback, whose import fails where the module is not installed: the
\* except clause goes on with the documents as they are
ApplySourceBoosting(documents, query, source_preferences) ==
    LET feedback_boosts == FeedbackBoosts(source_preferences)
        boosted_docs ==
            [i \in DOMAIN documents |->
                BoostDoc(documents[i].id,
                         documents[i].score
                             * BoostFactor(query, documents[i].source_file,
                                           feedback_boosts),
                         documents[i].source_file)]
    IN SortByScore(<<>>, boosted_docs)

InitBoost ==
    /\ exercised = "response"
    /\ now = 0
    /\ CachesEmpty
    /\ PipelineIdle
    /\ ret \in {Call("argument", None,
                     [documents |-> documents, query |-> query,
                      source_preferences |-> source_preferences],
                     None, None, None, 0) :
                   documents \in BoostLists, query \in BoostQueries,
                   source_preferences \in SourcePreferences}

\* boosted_documents = self._apply_source_boosting(documents, query)
Boost ==
    /\ ret.op = "argument"
    /\ ret' = Call("_apply_source_boosting", None, ret.key, None,
                   ApplySourceBoosting(ret.key.documents, ret.key.query,
                                       ret.key.source_preferences),
                   None, 0)
    /\ UNCHANGED <<exercised, now, cacheVars, pipelineVars>>

NextBoost == Boost

SpecBoost == InitBoost /\ [][NextBoost]_vars

\* C23: the factor _apply_source_boosting multiplies a score by lies
\* between 0.5 and 1.5, and the best-ranked document of the input list is
\* not the worst-ranked one of the output list.
C23_BoostingBounded ==
    ret.op = "_apply_source_boosting" =>
        LET documents == ret.key.documents
            boosted == ret.value
        IN /\ \A i \in DOMAIN documents :
                 LET boost_factor ==
                         BoostFactor(ret.key.query, documents[i].source_file,
                                     FeedbackBoosts(ret.key.source_preferences))
                 IN 500 <= boost_factor /\ boost_factor <= 1500
           /\ Len(documents) >= 2 =>
                 boosted[Len(boosted)].id # documents[1].id

----------------------------------------------------------------------------
(* VectorDAO.search_combined over the rows of the documents table *)

MaxRows == 3

\* the distances of the sample rows from the query vector, in hundredths
Distances == {10, 85, 90}

\* how the content of a row matches the query: not every term, every term,
\* or the whole query text
Matches == {"none", "terms", "phrase"}

\* the values of top_k
TopKs == 1..3

\* the rows of the table in the order of a scan; rows of equal rank come out
\* of ORDER BY in this order
TableRows ==
    UNION {{[i \in 1..n |-> [id |-> i, distance |-> distance[i],
                             match |-> match[i]]] :
               distance \in [1..n -> Distances],
               match \in [1..n -> Matches]} : n \in 0..MaxRows}

\* dao.search: ORDER BY distance ASC LIMIT top_k
SearchByDistance(rows, top_k) ==
    Limit(SortByScore(<<>>, [i \in DOMAIN rows |->
                                ScoredResult(rows[i].id, rows[i].distance)]),
          top_k)

\* the rows of a sequence that satisfy the WHERE clause of search_keyword
RECURSIVE WhereAllTerms(_)
WhereAllTerms(rows) ==
    IF rows = <<>>
    THEN <<>>
    ELSE IF Head(rows).match # "none"
    THEN <<Head(rows)>> \o WhereAllTerms(Tail(rows))
    ELSE WhereAllTerms(Tail(rows))

\* dao.search_keyword: score 0.1 for a row that holds the query text and
\* 0.5 for the others, ORDER BY score ASC LIMIT top_k
SearchKeywordScored(rows, top_k) ==
    LET matching == WhereAllTerms(rows)
    IN Limit(SortByScore(<<>>,
                 [i \in DOMAIN matching |->
                     ScoredResult(matching[i].id,
                                  IF matching[i].match = "phrase"
                                  THEN 10 ELSE 50)]),
             top_k)

\* mutant of PoorMatch: the keyword search is run whatever the distance
PoorMatchAlways(score) == TRUE

\* semantic_results[0].score > 0.8
PoorMatch(score) == score > 80

\* kr.score * 0.3
KeywordPriority(score) == (score * 3) \div 10

\* the semantic results whose id is not in combined yet
RECURSIVE NotIn(_, _)
NotIn(results, ids) ==
    IF results = <<>>
    THEN <<>>
    ELSE IF Head(results).id \in ids
    THEN NotIn(Tail(results), ids)
    ELSE <<Head(results)>> \o NotIn(Tail(results), ids)

\* dao.search_combined
SearchCombined(rows, top_k) ==
    LET semantic_results == SearchByDistance(rows, top_k)
        keyword_results == SearchKeywordScored(rows, top_k)
        boosted == [i \in DOMAIN keyword_results |->
                       ScoredResult(keyword_results[i].id,
                                    KeywordPriority(keyword_results[i].score))]
        combined ==
            boosted \o NotIn(semantic_results,
                             {boosted[i].id : i \in DOMAIN boosted})
    IN IF semantic_results # <<>> /\ PoorMatch(semantic_results[1].score)
       THEN Limit(SortByScore(<<>>, combined), top_k)
       ELSE semantic_results

InitCombined ==
    /\ exercised = "response"
    /\ now = 0
    /\ CachesEmpty
    /\ PipelineIdle
    /\ ret \in {Call("argument", None, [rows |-> rows, top_k |-> top_k],
                     None, None, None, 0) :
                   rows \in TableRows, top_k \in TopKs}

\* documents = self.dao.search_combined(query_vec, query, top_k)
Combine ==
    /\ ret.op = "argument"
    /\ ret' = Call("search_combined", None, ret.key, None,
                   SearchCombined(ret.key.rows, ret.key.top_k), None, 0)
    /\ UNCHANGED <<exercised, now, cacheVars, pipelineVars>>

NextCombined == Combine

SpecCombined == InitCombined /\ [][NextCombined]_vars

\* C24: when the best semantic distance is above 0.8 the keyword search
\* runs, and in the result of search_combined every keyword hit has a
\* strictly lower score than every hit the semantic search alone found, every
\* id appears once with the lowest of its candidate scores, and at most
\* top_k results come in ascending order of score; otherwise the semantic
\* results are returned as they are.
C24_CombinedMerge ==
    ret.op = "search_combined" =>
        LET out == ret.value
            semantic == SearchByDistance(ret.key.rows, ret.key.top_k)
            keyword == SearchKeywordScored(ret.key.rows, ret.key.top_k)
            hits == {keyword[i].id : i \in DOMAIN keyword}
            candidates(id) ==
                {(keyword[i].score * 3) \div 10 :
                    i \in {k \in DOMAIN keyword : keyword[k].id = id}}
                \cup {semantic[i].score :
                         i \in {k \in DOMAIN semantic : semantic[k].id = id}}
        IN IF semantic # <<>> /\ semantic[1].score > 80
           THEN /\ \A i, j \in DOMAIN out :
                      (out[i].id \in hits /\ out[j].id \notin hits) =>
                          out[i].score < out[j].score
                /\ \A i, j \in DOMAIN out : out[i].id = out[j].id => i = j
                /\ \A i \in DOMAIN out :
                      /\ out[i].score \in candidates(out[i].id)
                      /\ \A c \in candidates(out[i].id) : out[i].score <= c
                /\ Len(out) <= ret.key.top_k
                /\ \A i, j \in DOMAIN out :
                      i < j => out[i].score <= out[j].score
           ELSE out = semantic

\* the keyword search ran, and the result holds a keyword hit that the
\* semantic search found too and a hit of the semantic search alone
C24_Witness ==
    /\ ret.op = "search_combined"
    /\ LET semantic == SearchByDistance(ret.key.rows, ret.key.top_k)
           keyword == SearchKeywordScored(ret.key.rows, ret.key.top_k)
           hits == {keyword[i].id : i \in DOMAIN keyword}
           found == {semantic[i].id : i \in DOMAIN semantic}
       IN /\ semantic # <<>> /\ semantic[1].score > 80
          /\ \E i, j \in DOMAIN ret.value :
                /\ ret.value[i].id \in hits \cap found
                /\ ret.value[j].id \in found \ hits

----------------------------------------------------------------------------
(* RAGService._filter_by_relevance, a pure function of the documents and    *)
(* the strategy                                                             *)

\* the distances of the sample documents
FilterScores == {0, 10, 14, 15, 16, 20, 21}

MaxFilterLen == 3

Strategies ==
    {"semantic", "keyword", "hybrid", "enhanced", "combined", "fast"}

\* result lists of a search, best first
FilterLists ==
    UNION {{[i \in 1..n |-> ScoredResult(i, score[i])] :
               score \in {sc \in [1..n -> FilterScores] :
                             \A i, j \in 1..n : i < j => sc[i] <= sc[j]}} :
              n \in 0..MaxFilterLen}

InitFilter ==
    /\ exercised = "response"
    /\ now = 0
    /\ CachesEmpty
    /\ PipelineIdle
    /\ ret \in {Call("argument", None,
                     [documents |-> documents, strategy |-> strategy],
                     None, None, None, 0) :
                   documents \in FilterLists, strategy \in Strategies}

\* documents = self._filter_by_relevance(documents, strategy)
Filter ==
    /\ ret.op = "argument"
    /\ ret' = Call("_filter_by_relevance", None, ret.key, None,
                   FilterByRelevance(ret.key.documents, ret.key.strategy),
                   None, 0)
    /\ UNCHANGED <<exercised, now, cacheVars, pipelineVars>>

NextFilter == Filter

SpecFilter == InitFilter /\ [][NextFilter]_vars

\* C25: _filter_by_relevance returns a sub-list of its input in the order
\* of the input; keyword results are returned unchanged; of semantic results
\* exactly those are kept whose distance is at most 20.0 and, when there is
\* more than one result, at most 1.5 times the first distance; semantic
\* results whose first distance is at most 20.0 are never all dropped.
C25_RelevanceFilter ==
    ret.op = "_filter_by_relevance" =>
        LET documents == ret.key.documents
            kept == ret.value
            ids == {kept[i].id : i \in DOMAIN kept}
        IN /\ \A i \in DOMAIN kept : kept[i] = documents[kept[i].id]
           /\ \A i, j \in DOMAIN kept : i < j => kept[i].id < kept[j].id
           /\ ret.key.strategy = "keyword" => kept = documents
           /\ ret.key.strategy = "semantic" =>
                 /\ \A i \in DOMAIN documents :
                       i \in ids <=>
                           /\ documents[i].score <= 20
                           /\ Len(documents) > 1 =>
                                 2 * documents[i].score
                                     <= 3 * documents[1].score
                 /\ (documents # <<>> /\ documents[1].score <= 20) =>
                       kept # <<>>

\* several semantic results of which the filter dropped one for the
\* absolute threshold and one for the adaptive threshold
C25_Witness ==
    /\ ret.op = "_filter_by_relevance"
    /\ ret.key.strategy = "semantic"
    /\ Len(ret.key.documents) = 3
    /\ Len(ret.value) = 1
    /\ ret.key.documents[2].score <= 20
    /\ ret.key.documents[3].score > 20

----------------------------------------------------------------------------
(* query_rewriter._heuristic_split and rewrite_query, pure functions of the *)
(* query, max_subqueries and the answer of the LLM                          *)

\* the largest max_subqueries
MaxSubqueries == 3
\* the largest number of words of a query without a connector
MaxQueryWords == 19
\* the number of words of the sample queries with connectors
ConnectorQueryWords == 7

\* str.split(): the runs of characters that are not whitespace
RECURSIVE SplitWhitespace(_)
SplitWhitespace(text) ==
    LET q == Strip(text)
        blanks == {i \in DOMAIN q : q[i] \in Whitespace}
        first == CHOOSE i \in blanks : \A j \in blanks : i <= j
    IN IF q = <<>>
       THEN <<>>
       ELSE IF blanks = {}
       THEN <<q>>
       ELSE <<SubSeq(q, 1, first - 1)>>
                \o SplitWhitespace(SubSeq(q, first + 1, Len(q)))

\* connectors = [" and ", " or ", ",", ";", " vs ", " versus "]
Connectors ==
    <<<<" ", "a", "n", "d", " ">>, <<" ", "o", "r", " ">>, <<",">>, <<";">>, <<" ", "v", "s", " ">>, <<" ", "v", "e", "r", "s", "u", "s", " ">>>>

\* the words of the sample queries with connectors
SplitVocabulary == {<<"a">>, <<"a", "n", "d">>, <<"b", ",">>, <<"A", "N", "D">>}

\* the words of the sample queries without a connector
Letters == <<<<"a">>, <<"b">>, <<"c">>, <<"d">>, <<"e">>, <<"f">>, <<"g">>, <<"h">>, <<"i">>, <<"j">>, <<"k">>, <<"l">>, <<"m">>, <<"n">>, <<"o">>, <<"p">>, <<"q">>, <<"r">>, <<"s">>, <<"t">>, <<"u">>, <<"v">>, <<"w">>, <<"x">>, <<"y">>, <<"z">>>>

SplitQueries ==
    {<<>>, <<" ", " ", "a", " ", "b", ";", "c", " ", "d", " ", "e", " ", "f", " ", "g", " ", "h", " ", " ">>}
        \cup {Join(words) : words \in [1..ConnectorQueryWords -> SplitVocabulary]}
        \cup {Join(SubSeq(Letters, 1, n)) : n \in 12..MaxQueryWords}

\* [p.strip() for p in pieces if p.strip()]
RECURSIVE StripParts(_)
StripParts(pieces) ==
    IF pieces = <<>>
    THEN <<>>
    ELSE IF Strip(Head(pieces)) # <<>>
    THEN <<Strip(Head(pieces))>> \o StripParts(Tail(pieces))
    ELSE StripParts(Tail(pieces))

\* the first connector that q.lower() contains, 0 if there is none
FirstConnector(q) ==
    LET found == {i \in DOMAIN Connectors :
                     IsSubstring(Connectors[i], Lower(q))}
    IN IF found = {} THEN 0 ELSE CHOOSE i \in found : \A j \in found : i <= j

\* [" ".join(words[i:i + chunk_size]) for i in range(0, len(words), chunk_size)]
RECURSIVE WordGroups(_, _)
WordGroups(words, chunk_size) ==
    IF words = <<>>
    THEN <<>>
    ELSE <<Join(Limit(words, chunk_size))>>
             \o WordGroups(SubSeq(words, chunk_size + 1, Len(words)),
                           chunk_size)

\* mutant of LimitParts: every part is kept
LimitPartsKeepAll(parts, max_subqueries) == parts

\* parts[:max_subqueries]
LimitParts(parts, max_subqueries) == Limit(parts, max_subqueries)

\* _heuristic_split; <<>> stands for None
HeuristicSplit(query, max_subqueries) ==
    LET q == Strip(query)
        words == SplitWhitespace(q)
        c == FirstConnector(q)
        split == IF c = 0 THEN <<q>> ELSE StripParts(Split(q, Connectors[c]))
        chunk_size == IF Len(words) \div max_subqueries > 6
                      THEN Len(words) \div max_subqueries ELSE 6
        parts == IF Len(split) = 1 /\ Len(words) > 12
                 THEN WordGroups(words, chunk_size)
                 ELSE split
        limited == LimitParts(parts, max_subqueries)
    IN IF q = <<>> \/ Len(words) <= 6 \/ Len(limited) <= 1
       THEN <<>>
       ELSE limited

InitSplit ==
    /\ exercised = "response"
    /\ now = 0
    /\ CachesEmpty
    /\ PipelineIdle
    /\ ret \in {Call("argument", None,
                     [query |-> query, max_subqueries |-> max_subqueries],
                     None, None, None, 0) :
                   query \in SplitQueries,
                   max_subqueries \in 1..MaxSubqueries}

\* heuristic = await _heuristic_split(query, max_subqueries=max_subqueries)
HeuristicSplitCall ==
    /\ ret.op = "argument"
    /\ ret' = Call("_heuristic_split", None, ret.key, None,
                   HeuristicSplit(ret.key.query, ret.key.max_subqueries),
                   None, 0)
    /\ UNCHANGED <<exercised, now, cacheVars, pipelineVars>>

NextSplit == HeuristicSplitCall

SpecSplit == InitSplit /\ [][NextSplit]_vars

\* the words of a list of parts, in order
RECURSIVE WordsOfParts(_)
WordsOfParts(parts) ==
    IF parts = <<>>
    THEN <<>>
    ELSE SplitWhitespace(Head(parts)) \o WordsOfParts(Tail(parts))

\* C30: when _heuristic_split returns parts, the words of the parts are, in
\* order, the words of the query without the connector the query was split
\* at: no word is lost, by the limit of max_subqueries parts either.
C30_SplitKeepsWords ==
    (ret.op = "_heuristic_split" /\ ret.value # <<>>) =>
        LET q == Strip(ret.key.query)
            c == FirstConnector(q)
        IN WordsOfParts(ret.value)
               = IF c = 0
                 THEN SplitWhitespace(q)
                 ELSE WordsOfParts(Split(q, Connectors[c]))

----------------------------------------------------------------------------
(* rewrite_query with the answer of the LLM as an input *)

\* the queries rewrite_query is sampled on: a short one, one of two parts,
\* one of four parts, one without a connector
RewriteQueries ==
    {<<"a", " ", "a", "n", "d", " ", "b">>,
     <<"r", "e", "d", " ", "a", "n", "d", " ", "g", "r", "e", "e", "n", " ", "o", "r", " ", "b", "l", "u", "e", ",", " ", "b", "l", "a", "c", "k", " ", "w", "h", "i", "t", "e", " ", "y", "e", "l", "l", "o", "w">>,
     <<"r", "e", "d", " ", "a", "n", "d", " ", "g", "r", "e", "e", "n", " ", "a", "n", "d", " ", "b", "l", "u", "e", " ", "a", "n", "d", " ", "b", "l", "a", "c", "k">>,
     Join(SubSeq(Letters, 1, 13))}

\* an item of the "subqueries" list of the answer: a string or something
\* else
Item(is_str, text) == [is_str |-> is_str, text |-> text]

Items ==
    {Item(TRUE, <<"x">>), Item(TRUE, <<" ", "y", " ">>), Item(TRUE, <<" ", " ">>),
     Item(FALSE, <<>>)}

\* what llm.generate does and what its text parses to: the call raises, the
\* response has no text, the text holds no JSON, the JSON is not an
\* object, the object has no "subqueries", "subqueries" is not a list, or
\* it is a list of items
LlmResponses ==
    {[kind |-> k, subqueries |-> <<>>] :
        k \in {"raise", "no_text", "no_json", "not_object", "no_key",
               "not_list"}}
        \cup {[kind |-> "list", subqueries |-> items] :
                 items \in UNION {[1..n -> Items] :
                                     n \in 0..(MaxSubqueries + 1)}}

\* [s.strip() for s in subqueries if isinstance(s, str) and s.strip()]
RECURSIVE Cleaned(_)
Cleaned(subqueries) ==
    IF subqueries = <<>>
    THEN <<>>
    ELSE IF Head(subqueries).is_str /\ Strip(Head(subqueries).text) # <<>>
    THEN <<Strip(Head(subqueries).text)>> \o Cleaned(Tail(subqueries))
    ELSE Cleaned(Tail(subqueries))

\* _generate_subqueries_llm; <<>> stands for None and for the empty list,
\* which rewrite_query does not tell apart
GenerateSubqueriesLlm(response, max_subqueries) ==
    IF response.kind = "list"
    THEN Limit(Cleaned(response.subqueries), max_subqueries)
    ELSE <<>>

Simple(query) == [type |-> "simple", query |-> query, subqueries |-> <<>>]

Subqueries(subqueries) ==
    [type |-> "subqueries", query |-> <<>>, subqueries |-> subqueries]

\* rewrite_query
RewriteQuery(query, response, max_subqueries, allow_llm) ==
    LET heuristic == HeuristicSplit(query, max_subqueries)
        llm_subs == GenerateSubqueriesLlm(response, max_subqueries)
    IN IF heuristic # <<>>
       THEN IF allow_llm /\ llm_subs # <<>>
            THEN Subqueries(llm_subs)
            ELSE Subqueries(heuristic)
       ELSE Simple(query)

InitRewrite ==
    /\ exercised = "response"
    /\ now = 0
    /\ CachesEmpty
    /\ PipelineIdle
    /\ ret \in {Call("argument", None,
                     [query |-> query, response |-> response,
                      max_subqueries |-> max_subqueries,
                      allow_llm |-> allow_llm],
                     None, None, None, 0) :
                   query \in RewriteQueries, response \in LlmResponses,
                   max_subqueries \in 1..MaxSubqueries,
                   allow_llm \in BOOLEAN}

Rewrite ==
    /\ ret.op = "argument"
    /\ ret' = Call("rewrite_query", None, ret.key, None,
                   RewriteQuery(ret.key.query, ret.key.response,
                                ret.key.max_subqueries, ret.key.allow_llm),
                   None, 0)
    /\ UNCHANGED <<exercised, now, cacheVars, pipelineVars>>

NextRewrite == Rewrite

SpecRewrite == InitRewrite /\ [][NextRewrite]_vars

\* the LLM gave nothing rewrite_query can use: the call raised, there was no
\* text, or the text did not parse to an object with a "subqueries" list
\* that is not empty
LlmFailed(response) ==
    \/ response.kind # "list"
    \/ response.subqueries = <<>>

\* C26: rewrite_query returns the type 'subqueries' only when the heuristic
\* split gave at least 2 parts; when the LLM fails the result is the
\* heuristic parts; and the returned list has at least 2 and at most
\* max_subqueries entries.
C26_RewriterFallback ==
    (ret.op = "rewrite_query" /\ ret.value.type = "subqueries") =>
        LET heuristic ==
                HeuristicSplit(ret.key.query, ret.key.max_subqueries)
        IN /\ Len(heuristic) >= 2
           /\ LlmFailed(ret.key.response) =>
                 ret.value.subqueries = heuristic
           /\ Len(ret.value.subqueries) >= 2
           /\ Len(ret.value.subqueries) <= ret.key.max_subqueries

\* C26, amended: rewrite_query returns the type 'subqueries' only when the
\* heuristic split gave at least 2 parts; when the LLM fails the result is
\* the heuristic parts; and the returned list has at least 1 and at most
\* max_subqueries entries.
C26_RewriterFallbackAmended ==
    (ret.op = "rewrite_query" /\ ret.value.type = "subqueries") =>
        LET heuristic ==
                HeuristicSplit(ret.key.query, ret.key.max_subqueries)
        IN /\ Len(heuristic) >= 2
           /\ LlmFailed(ret.key.response) =>
                 ret.value.subqueries = heuristic
           /\ Len(ret.value.subqueries) >= 1
           /\ Len(ret.value.subqueries) <= ret.key.max_subqueries

\* the text of the LLM held no JSON and the parts of the heuristic split
\* were returned, fewer than the query has
C26_Witness ==
    /\ ret.op = "rewrite_query"
    /\ ret.key.allow_llm
    /\ ret.key.response.kind = "no_json"
    /\ ret.value.type = "subqueries"
    /\ Len(ret.value.subqueries) = 3
    /\ Len(StripParts(Split(ret.key.query, Connectors[1]))) = 4
====
